---- MODULE Spec2Model ----
(***************************************************************************)
(* A model of the offers bot (src/bot.py), its offer repository and input  *)
(* normalizers (src/offers_db.py) and the upload helper                    *)
(* (src/announcement_stock_bot.py).                                        *)
(*                                                                         *)
(* A text is a sequence of one-character strings, so that strip, split,    *)
(* int() and Decimal() are computed on the characters as the code does.    *)
(* An Optional[int] column is <<>> (None) or <<v>>.                        *)
(***************************************************************************)
EXTENDS Integers, Sequences, FiniteSets, TLC

(***************************************************************************)
(* Bounds of the model.                                                    *)
(***************************************************************************)
MaxOffers == 2
MaxMessages == 2
\* the same two bounds while two admins share the bot
SharedMaxOffers == 1
SharedMaxMessages == 1

\* the calls of a handler after which the process may be stopped
MaxStop == 4

(***************************************************************************)
(* Text primitives (Python str methods used by the handlers).              *)
(***************************************************************************)
Digits == <<"0", "1", "2", "3", "4", "5", "6", "7", "8", "9">>

IsDigit(c) == \E i \in 1..10 : Digits[i] = c

DigitVal(c) == (CHOOSE i \in 1..10 : Digits[i] = c) - 1

IsSpace(c) == c \in {" ", "\t", "\n"}

AllDigits(t) == \A i \in 1..Len(t) : IsDigit(t[i])

RECURSIVE LStrip(_)
LStrip(t) == IF t # <<>> /\ IsSpace(Head(t)) THEN LStrip(Tail(t)) ELSE t

RECURSIVE RStrip(_)
RStrip(t) ==
    IF t # <<>> /\ IsSpace(t[Len(t)]) THEN RStrip(SubSeq(t, 1, Len(t) - 1)) ELSE t

\* str.strip()
Strip(t) == RStrip(LStrip(t))

\* str.rstrip(c) for a single character c
RECURSIVE RStripChar(_, _)
RStripChar(t, c) ==
    IF t # <<>> /\ t[Len(t)] = c THEN RStripChar(SubSeq(t, 1, Len(t) - 1), c) ELSE t

\* str.split(sep) for a one-character separator: always at least one part
RECURSIVE SplitOn(_, _)
SplitOn(t, sep) ==
    IF \A i \in 1..Len(t) : t[i] # sep
    THEN <<t>>
    ELSE LET k == CHOOSE i \in 1..Len(t) :
                      t[i] = sep /\ \A j \in 1..(i - 1) : t[j] # sep
         IN  <<SubSeq(t, 1, k - 1)>> \o SplitOn(SubSeq(t, k + 1, Len(t)), sep)

\* str.split() with no argument: runs of whitespace separate, no empty parts
RECURSIVE SplitWs(_)
SplitWs(t) ==
    LET s == LStrip(t)
    IN  IF s = <<>>
        THEN <<>>
        ELSE LET n == IF \E i \in 1..Len(s) : IsSpace(s[i])
                      THEN (CHOOSE i \in 1..Len(s) :
                                IsSpace(s[i]) /\ \A j \in 1..(i - 1) : ~IsSpace(s[j])) - 1
                      ELSE Len(s)
             IN  <<SubSeq(s, 1, n)>> \o SplitWs(SubSeq(s, n + 1, Len(s)))

\* needle in text (Python's `in` on strings)
Contains(t, needle) ==
    \E i \in 1..(Len(t) - Len(needle) + 1) :
        SubSeq(t, i, i + Len(needle) - 1) = needle

RECURSIVE DigitsToNat(_)
DigitsToNat(t) ==
    IF t = <<>> THEN 0
    ELSE 10 * DigitsToNat(SubSeq(t, 1, Len(t) - 1)) + DigitVal(t[Len(t)])

RECURSIVE NatToStr(_)
NatToStr(n) ==
    IF n < 10 THEN <<Digits[n + 1]>>
    ELSE NatToStr(n \div 10) \o <<Digits[(n % 10) + 1]>>

\* str(int)
IntToStr(n) == IF n < 0 THEN <<"-">> \o NatToStr(-n) ELSE NatToStr(n)

RECURSIVE Pow10(_)
Pow10(k) == IF k <= 0 THEN 1 ELSE 10 * Pow10(k - 1)

(***************************************************************************)
(* int(text): surrounding whitespace is dropped, one optional sign, then   *)
(* one or more digits.  The result is [ok |-> FALSE] for ValueError.       *)
(***************************************************************************)
PyInt(text) ==
    LET Signed(sign, body) ==
            IF body # <<>> /\ AllDigits(body)
            THEN [ok |-> TRUE,
                  val |-> IF sign = "-" THEN -DigitsToNat(body) ELSE DigitsToNat(body)]
            ELSE [ok |-> FALSE, val |-> 0]
        Stripped(s) ==
            IF s # <<>> /\ Head(s) \in {"+", "-"} THEN Signed(Head(s), Tail(s))
            ELSE Signed("+", s)
    IN  Stripped(Strip(text))

\* offers_db.parse_quantity: ValueError for non-integers and negatives
parse_quantity(value) ==
    LET Checked(q) ==
            IF ~q.ok THEN [ok |-> FALSE, val |-> 0, err |-> "Quantity must be a whole number"]
            ELSE IF q.val < 0
            THEN [ok |-> FALSE, val |-> 0, err |-> "Quantity must be zero or greater"]
            ELSE [ok |-> TRUE, val |-> q.val, err |-> ""]
    IN  Checked(PyInt(value))

\* bot._parse_offer_id
_parse_offer_id(text) ==
    LET Checked(q) ==
            IF q.ok THEN [ok |-> TRUE, val |-> q.val, err |-> ""]
            ELSE [ok |-> FALSE, val |-> 0, err |-> "Offer id must be a number"]
    IN  Checked(PyInt(text))

(***************************************************************************)
(* decimal.Decimal(text), on the characters the model's texts use: blanks  *)
(* around the number are dropped, then an optional sign, then digits with  *)
(* an optional point and an optional exponent, or a special value (inf,    *)
(* infinity, nan, snan in any letter case).  A number is sign, coefficient *)
(* and exponent, as Decimal keeps it.                                      *)
(***************************************************************************)
DECIMAL_PREC == 28

UpperLetters ==
    <<"A", "B", "C", "D", "E", "F", "G", "H", "I", "J", "K", "L", "M",
      "N", "O", "P", "Q", "R", "S", "T", "U", "V", "W", "X", "Y", "Z">>

LowerLetters ==
    <<"a", "b", "c", "d", "e", "f", "g", "h", "i", "j", "k", "l", "m",
      "n", "o", "p", "q", "r", "s", "t", "u", "v", "w", "x", "y", "z">>

LowerChar(c) ==
    IF \E i \in 1..26 : UpperLetters[i] = c
    THEN LowerLetters[CHOOSE i \in 1..26 : UpperLetters[i] = c]
    ELSE c

Lower(t) == [i \in 1..Len(t) |-> LowerChar(t[i])]

InvalidDecimal == [kind |-> "invalid", neg |-> FALSE, coeff |-> 0, exp |-> 0, ndig |-> 0]

\* the part before an exponent: digits [. digits] | . digits
ParseMantissa(m) ==
    LET Parts(n, ip, fp) ==
            IF n > 2 \/ ~AllDigits(ip) \/ ~AllDigits(fp) \/ (ip = <<>> /\ fp = <<>>)
            THEN [ok |-> FALSE, digits |-> <<>>, exp |-> 0]
            ELSE [ok |-> TRUE, digits |-> ip \o fp, exp |-> -Len(fp)]
        Split(parts) ==
            Parts(Len(parts), parts[1], IF Len(parts) = 2 THEN parts[2] ELSE <<>>)
    IN  Split(SplitOn(m, "."))

RECURSIVE DropLeadingZeros(_)
DropLeadingZeros(t) ==
    IF Len(t) > 1 /\ Head(t) = "0" THEN DropLeadingZeros(Tail(t)) ELSE t

PyDecimal(text) ==
    LET Number(neg, m, ex, exOk) ==
            IF m.ok /\ exOk
            THEN [kind |-> "num", neg |-> neg,
                  coeff |-> DigitsToNat(m.digits), exp |-> m.exp + ex.val,
                  ndig |-> Len(DropLeadingZeros(m.digits))]
            ELSE InvalidDecimal
        Exponent(neg, ep, m, ex) ==
            Number(neg, m, ex, Len(ep) = 1 \/ (Len(ep) = 2 /\ ex.ok /\ ep[2] = Strip(ep[2])))
        Mantissa(neg, ep) ==
            Exponent(neg, ep, ParseMantissa(ep[1]),
                     IF Len(ep) = 2 THEN PyInt(ep[2]) ELSE [ok |-> TRUE, val |-> 0])
        Signed(neg, body) ==
            IF body \in {<<"i", "n", "f">>, <<"i", "n", "f", "i", "n", "i", "t", "y">>}
            THEN [kind |-> "inf", neg |-> neg, coeff |-> 0, exp |-> 0, ndig |-> 0]
            ELSE IF body \in {<<"n", "a", "n">>, <<"s", "n", "a", "n">>}
            THEN [kind |-> "nan", neg |-> neg, coeff |-> 0, exp |-> 0, ndig |-> 0]
            ELSE Mantissa(neg, SplitOn(body, "e"))
        Stripped(s) ==
            IF s # <<>> /\ Head(s) \in {"+", "-"} THEN Signed(Head(s) = "-", Tail(s))
            ELSE Signed(FALSE, s)
    IN  Stripped(Lower(Strip(text)))

\* the value is a whole number (dec == dec.to_integral())
DecIsIntegral(d) == d.exp >= 0 \/ d.coeff % Pow10(-d.exp) = 0

\* round-half-even of coeff / 10^k for k > 0 (the default context's rounding)
RoundHalfEven(coeff, k) ==
    LET p == Pow10(k)
        q == coeff \div p
        r == coeff % p
    IN  IF 2 * r > p \/ (2 * r = p /\ q % 2 = 1) THEN q + 1 ELSE q

\* f"{q:.2f}" of a non-negative q with exponent -2, given as n = q * 100
FormatFixed2(n) ==
    NatToStr(n \div 100) \o <<".">> \o <<Digits[((n \div 10) % 10) + 1], Digits[(n % 10) + 1]>>

NormalizeFailure(e) == [status |-> e, val |-> <<>>]

\* a variant that stores the price text as it was typed
normalize_price_Verbatim(value) == [status |-> "ok", val |-> Strip(value)]

(***************************************************************************)
(* offers_db.normalize_price.  status is "ok" (val is the canonical text), *)
(* "ValueError" (the error the handlers catch) or "InvalidOperation" (a    *)
(* decimal signal raised outside the function's try block, which no        *)
(* handler catches).                                                       *)
(***************************************************************************)
normalize_price(value) ==
    LET Normalized(dec) ==
            CASE dec.kind = "invalid" -> NormalizeFailure("ValueError")
              [] dec.kind = "nan" -> NormalizeFailure("InvalidOperation")
              [] dec.kind = "inf" ->
                    IF dec.neg THEN NormalizeFailure("ValueError")
                    ELSE NormalizeFailure("InvalidOperation")
              [] OTHER ->
                    IF dec.neg \/ dec.coeff = 0
                    THEN NormalizeFailure("ValueError")
                    ELSE IF DecIsIntegral(dec)
                    THEN IF dec.ndig + dec.exp > DECIMAL_PREC
                         THEN NormalizeFailure("InvalidOperation")
                         ELSE [status |-> "ok",
                               val |-> IF dec.exp >= 0
                                       THEN NatToStr(dec.coeff * Pow10(dec.exp))
                                       ELSE NatToStr(dec.coeff \div Pow10(-dec.exp))]
                    ELSE IF dec.ndig + dec.exp + 2 > DECIMAL_PREC
                    THEN NormalizeFailure("InvalidOperation")
                    ELSE LET n == IF dec.exp >= -2
                                  THEN dec.coeff * Pow10(dec.exp + 2)
                                  ELSE RoundHalfEven(dec.coeff, -dec.exp - 2)
                         IN  [status |-> "ok",
                              val |-> RStripChar(RStripChar(FormatFixed2(n), "0"), ".")]
    IN  Normalized(PyDecimal(value))

(***************************************************************************)
(* Constants of src/bot.py.                                                *)
(***************************************************************************)
NoFlow == "none"
FLOW_ADD_NAME == "add_name"
FLOW_ADD_QTY == "add_qty"
FLOW_ADD_PRICE == "add_price"
FLOW_SET_QTY_ID == "set_qty_id"
FLOW_SET_QTY_VALUE == "set_qty_value"
FLOW_SET_PRICE_ID == "set_price_id"
FLOW_SET_PRICE_VALUE == "set_price_value"
FLOW_SOLD_OUT_ID == "sold_out_id"
FLOW_ANNOUNCE_ID == "announce_id"
FLOW_UPLOAD_WAIT_FILE == "upload_wait_file"

FlowTags ==
    {FLOW_ADD_NAME, FLOW_ADD_QTY, FLOW_ADD_PRICE, FLOW_SET_QTY_ID, FLOW_SET_QTY_VALUE,
     FLOW_SET_PRICE_ID, FLOW_SET_PRICE_VALUE, FLOW_SOLD_OUT_ID, FLOW_ANNOUNCE_ID,
     FLOW_UPLOAD_WAIT_FILE}

SETTING_ANNOUNCE_CHAT_ID == "announce_chat_id"

MENU_STOCK == <<"S", "t", "o", "c", "k">>

MENU_ADD == <<"A", "d", "d", " ", "o", "f", "f", "e", "r">>

MENU_SET_QTY == <<"U", "p", "d", "a", "t", "e", " ", "q", "t", "y">>

MENU_SET_PRICE == <<"U", "p", "d", "a", "t", "e", " ", "p", "r", "i", "c", "e">>

MENU_SOLD_OUT == <<"S", "o", "l", "d", " ", "o", "u", "t">>

MENU_ANNOUNCE == <<"R", "e", "-", "a", "n", "n", "o", "u", "n", "c", "e">>

MENU_SET_ANNOUNCE == <<"S", "e", "t", " ", "a", "n", "n", "o", "u", "n", "c", "e", " ", "c", "h", "a", "t">>

MENU_UPLOAD == <<"U", "p", "l", "o", "a", "d", " ", "f", "i", "l", "e">>

MENU_HELP == <<"H", "e", "l", "p">>

MENU_MENU == <<"M", "e", "n", "u">>

MENU_CANCEL == <<"C", "a", "n", "c", "e", "l">>

MENU_LABELS ==
    {MENU_STOCK, MENU_ADD, MENU_SET_QTY, MENU_SET_PRICE,
     MENU_SOLD_OUT, MENU_ANNOUNCE, MENU_SET_ANNOUNCE, MENU_UPLOAD,
     MENU_HELP, MENU_MENU, MENU_CANCEL}

CONTACT_TEXT == <<"L", "M", "K", " ", "i", "f", " ", "i", "n", "t", "e", "r", "e", "s", "t", "e", "d", ".">>


(***************************************************************************)
(* The offer repository (src/offers_db.py, OfferStore).  The table is the  *)
(* sequence of its rows in insertion order; AUTOINCREMENT gives the row    *)
(* inserted n-th the id n, and no statement deletes a row.                 *)
(***************************************************************************)
None == <<>>

Some(v) == <<v>>

\* OfferStore.get_offer: None or the row
OfferStore_get_offer(rows, offer_id) ==
    IF offer_id \in 1..Len(rows) THEN Some(rows[offer_id]) ELSE None

\* a variant whose INSERT takes the id of the newest row again
OfferStore_add_offer_ReuseId(rows, name, quantity, price) ==
    Append(rows, [id |-> IF rows = <<>> THEN 1 ELSE rows[Len(rows)].id,
                  name |-> name, quantity |-> quantity,
                  price |-> price, active |-> TRUE, created_at |-> Len(rows) + 1,
                  announce_chat_id |-> <<>>, announce_message_id |-> <<>>])

\* OfferStore.add_offer: INSERT with active = 1 and no announcement columns
OfferStore_add_offer(rows, name, quantity, price) ==
    Append(rows, [id |-> Len(rows) + 1, name |-> name, quantity |-> quantity,
                  price |-> price, active |-> TRUE, created_at |-> Len(rows) + 1,
                  announce_chat_id |-> None, announce_message_id |-> None])

\* OfferStore.set_active: UPDATE ... WHERE id = ?  (no row: nothing changes)
OfferStore_set_active(rows, offer_id, active) ==
    [i \in 1..Len(rows) |->
        IF rows[i].id = offer_id THEN [rows[i] EXCEPT !.active = active] ELSE rows[i]]

\* a variant that also forgets the announcement of the row
OfferStore_update_quantity_Unbind(rows, offer_id, quantity) ==
    [i \in 1..Len(rows) |->
        IF rows[i].id = offer_id
        THEN [rows[i] EXCEPT !.quantity = quantity, !.announce_chat_id = <<>>,
                             !.announce_message_id = <<>>]
        ELSE rows[i]]

\* OfferStore.update_quantity
OfferStore_update_quantity(rows, offer_id, quantity) ==
    [i \in 1..Len(rows) |->
        IF rows[i].id = offer_id THEN [rows[i] EXCEPT !.quantity = quantity] ELSE rows[i]]

\* a variant whose UPDATE has no WHERE clause
OfferStore_update_price_AllRows(rows, offer_id, price) ==
    [i \in 1..Len(rows) |-> [rows[i] EXCEPT !.price = price]]

\* OfferStore.update_price
OfferStore_update_price(rows, offer_id, price) ==
    [i \in 1..Len(rows) |->
        IF rows[i].id = offer_id THEN [rows[i] EXCEPT !.price = price] ELSE rows[i]]

\* a variant whose UPDATE sets the message column only
OfferStore_attach_announcement_MessageOnly(rows, offer_id, chat_id, message_id) ==
    [i \in 1..Len(rows) |->
        IF rows[i].id = offer_id
        THEN [rows[i] EXCEPT !.announce_message_id = <<message_id>>]
        ELSE rows[i]]

\* OfferStore.attach_announcement
OfferStore_attach_announcement(rows, offer_id, chat_id, message_id) ==
    [i \in 1..Len(rows) |->
        IF rows[i].id = offer_id
        THEN [rows[i] EXCEPT !.announce_chat_id = Some(chat_id),
                             !.announce_message_id = Some(message_id)]
        ELSE rows[i]]

\* OfferStore.list_offers: ORDER BY created_at DESC, newest first
RECURSIVE OfferStore_list_offers(_, _)
OfferStore_list_offers(rows, active_only) ==
    IF rows = <<>> THEN <<>>
    ELSE LET r == rows[Len(rows)]
             rest == OfferStore_list_offers(SubSeq(rows, 1, Len(rows) - 1), active_only)
         IN  IF active_only /\ ~r.active THEN rest ELSE <<r>> \o rest

\* OfferStore.get_setting / set_setting: the settings table holds one column
\* per known key, None while the key has no row
OfferStore_get_setting(table, key) == table[key]

OfferStore_set_setting(table, key, value) == [table EXCEPT ![key] = Some(value)]

\* Python truthiness of an Optional[int] column: None and 0 are false
Truthy(opt) == opt # None /\ opt[1] # 0

(***************************************************************************)
(* State.                                                                  *)
(*   ADMIN_USER_IDS, ANNOUNCE_CHAT_ID  the environment read at import      *)
(*   user_data   per user: the flow step tag and the flow's field bag      *)
(*   offers, settings   the two tables of the repository                   *)
(*   chat_log    the messages bot.send_message has posted: message i has   *)
(*               message_id i, the chat it is in, the offer it announces   *)
(*               (0 for an upload summary) and whether it was deleted      *)
(***************************************************************************)
VARIABLES ADMIN_USER_IDS, ANNOUNCE_CHAT_ID, user_data, offers, settings, chat_log, tasks

vars == <<ADMIN_USER_IDS, ANNOUNCE_CHAT_ID, user_data, offers, settings, chat_log, tasks>>

Users == {1, 2}

\* a private chat's id is the user's id
ChatOf(u) == u

EmptyData == [name |-> None, quantity |-> None, offer_id |-> None]

NoSession == [flow |-> NoFlow, data |-> EmptyData]

\* tasks[u] is the handler coroutine of u's update: where it waits and the
\* locals it resumes with; no handler of u is running while it is idle
IdleTask ==
    [pc |-> "idle", cmd |-> <<>>, id |-> 0, chat |-> 0, mid |-> 0, ok |-> FALSE,
     over |-> {}]

\* the mutable state as one value
State ==
    [user_data |-> user_data, offers |-> offers, settings |-> settings,
     chat_log |-> chat_log]

(***************************************************************************)
(* A handler runs on a context: the sender, the sender's session, the      *)
(* tables and the transport, plus what the handler has done so far (its    *)
(* replies, its calls in order, the exception that ended it).  After an    *)
(* exception no later statement of the handler has an effect.              *)
(***************************************************************************)
CtxOf(st, u) ==
    [user |-> u, flow |-> st.user_data[u].flow, data |-> st.user_data[u].data,
     offers |-> st.offers, settings |-> st.settings, chat_log |-> st.chat_log,
     replies |-> <<>>, trace |-> <<>>, raised |-> "", ret |-> FALSE, stop |-> 0]

Ctx(u) == CtxOf(State, u)

\* a variant with one flow session for the whole bot
SessionsAfter_Global(sessions, c) ==
    [u \in DOMAIN sessions |-> [flow |-> c.flow, data |-> c.data]]

\* context.user_data is the sender's own dictionary: a handler writes no other
SessionsAfter(sessions, c) ==
    [sessions EXCEPT ![c.user] = [flow |-> c.flow, data |-> c.data]]

\* the state a handler that ended in context c leaves
After(st, c) ==
    [user_data |-> SessionsAfter(st.user_data, c), offers |-> c.offers,
     settings |-> c.settings, chat_log |-> c.chat_log]

EvT(op, id, chat, mid, ok, text) ==
    [op |-> op, id |-> id, chat |-> chat, mid |-> mid, ok |-> ok, text |-> text]

Ev(op, id, chat, mid, ok) == EvT(op, id, chat, mid, ok, <<>>)

Alive(c) == c.raised = ""

\* the process may be stopped while a handler runs: c.stop is the call of the
\* handler (to the repository, the transport or the reply) after which
\* nothing more of it is executed (0: the handler runs to its end; Halt
\* follows a call, so the trace is not empty)
Halt(c) ==
    IF c.stop = Len(c.trace) /\ c.raised = ""
    THEN [c EXCEPT !.raised = "Stopped"]
    ELSE c

Raise(c, exc) == IF Alive(c) THEN [c EXCEPT !.raised = exc] ELSE c

Return(c, value) == IF Alive(c) THEN [c EXCEPT !.ret = value] ELSE c

R(msg) == [msg |-> msg, args |-> <<>>]

RA(msg, args) == [msg |-> msg, args |-> args]

\* update.effective_message.reply_text: the transport may raise; env.reply_fails
\* is the handler's reply call that raises (0: none)
reply_text(c, r, env) ==
    IF ~Alive(c) THEN c
    ELSE LET ok == env.reply_fails # Len(c.replies) + 1
         IN  Halt([c EXCEPT !.replies = Append(@, r),
                            !.trace = Append(@, Ev("reply_text", 0, ChatOf(c.user), 0, ok)),
                            !.raised = IF ok THEN "" ELSE "TelegramError"])

\* bot._set_flow with a data argument
_set_flow(c, flow, data) ==
    IF Alive(c) THEN [c EXCEPT !.flow = flow, !.data = data] ELSE c

\* bot._clear_flow: both keys are popped
_clear_flow(c) ==
    IF Alive(c) THEN [c EXCEPT !.flow = NoFlow, !.data = EmptyData] ELSE c

\* bot._is_admin
_is_admin(user_id) ==
    IF ADMIN_USER_IDS = {} THEN FALSE ELSE user_id \in ADMIN_USER_IDS

\* a variant that lets everyone through
_require_admin_Open(user_id) == TRUE

\* bot._require_admin: the value returned
_require_admin(user_id) == ADMIN_USER_IDS # {} /\ _is_admin(user_id)

\* bot._require_admin: the reply of a refusal
RequireAdminRefusal(c, env) ==
    IF ADMIN_USER_IDS = {}
    THEN reply_text(c, R("Admins are not configured. Set ADMIN_USER_IDS to enable admin commands."), env)
    ELSE reply_text(c, R("Not authorized. Ask the owner to add you as an admin."), env)

\* the repository calls of a handler, with the call noted in the trace
StoreCall(c, op, id, rows) ==
    IF Alive(c)
    THEN Halt([c EXCEPT !.offers = rows, !.trace = Append(@, Ev(op, id, 0, 0, TRUE))])
    ELSE c

StoreRead(c, op, id) ==
    IF Alive(c) THEN Halt([c EXCEPT !.trace = Append(@, Ev(op, id, 0, 0, TRUE))]) ELSE c

\* context.bot.send_message: posts the text and returns the message, or raises
send_message(c, chat_id, offer_id, text, env) ==
    IF ~Alive(c) THEN c
    ELSE IF env.send
    THEN Halt([c EXCEPT !.chat_log = Append(@, [chat_id |-> chat_id, offer_id |-> offer_id,
                                                 deleted |-> FALSE]),
                        !.trace = Append(@, EvT("send_message", offer_id, chat_id,
                                                Len(c.chat_log) + 1, TRUE, text))])
    ELSE Halt([c EXCEPT !.trace = Append(@, EvT("send_message", offer_id, chat_id, 0, FALSE,
                                                text))])

\* a message the transport can still delete
IsLive(log, chat_id, message_id) ==
    /\ message_id \in 1..Len(log)
    /\ log[message_id].chat_id = chat_id
    /\ ~log[message_id].deleted

\* context.bot.delete_message: removes a live message, raises otherwise
delete_message(c, chat_id, message_id, env) ==
    IF ~Alive(c) THEN c
    ELSE IF env.delete /\ IsLive(c.chat_log, chat_id, message_id)
    THEN Halt([c EXCEPT !.chat_log[message_id].deleted = TRUE,
                        !.trace = Append(@, Ev("delete_message", 0, chat_id, message_id, TRUE))])
    ELSE Halt([c EXCEPT !.trace = Append(@, Ev("delete_message", 0, chat_id, message_id,
                                               FALSE))])

LastEv(c) == c.trace[Len(c.trace)]

(***************************************************************************)
(* Announcement composer and the lifecycle controller (src/bot.py).        *)
(***************************************************************************)
\* bot._announcement_chat_id: the stored setting when it is an integer, else
\* the environment's chat (int() of it may raise), else the sender's chat
_announcement_chat_id(c) ==
    LET Sender == [ok |-> TRUE, val |-> ChatOf(c.user)]
        Environment ==
            IF ANNOUNCE_CHAT_ID # None /\ ANNOUNCE_CHAT_ID[1] # <<>>
            THEN PyInt(ANNOUNCE_CHAT_ID[1])
            ELSE Sender
        Parsed(n) == IF n.ok THEN n ELSE Environment
        Stored(stored_value) ==
            IF stored_value # None /\ stored_value[1] # <<>>
            THEN Parsed(PyInt(stored_value[1]))
            ELSE Environment
    IN  Stored(OfferStore_get_setting(c.settings, SETTING_ANNOUNCE_CHAT_ID))

\* bot._build_announcement
_build_announcement(offer) ==
    <<"H", "e", "y", "!", " ", "I", " ", "h", "a", "v", "e", " ">> \o offer.name \o <<" ", "i", "n", " ", "r", "i", "g", "h", "t", " ", "n", "o", "w", ".", " ">>
        \o IntToStr(offer.quantity) \o <<" ", "a", "v", "a", "i", "l", "a", "b", "l", "e", " ", "a", "t", " ", "$">> \o offer.price
        \o <<".", " ">> \o CONTACT_TEXT

\* bot._format_offer_line
_format_offer_line(offer) ==
    <<"#">> \o IntToStr(offer.id) \o <<" ", "-", " ">> \o offer.name \o <<" ", "-", " ">>
        \o IntToStr(offer.quantity) \o <<" ", "@", " ", "$">> \o offer.price

\* bot._format_offers: the lines under the "Current stock:" header
_format_offers(rows) == [i \in 1..Len(rows) |-> _format_offer_line(rows[i])]

\* a variant that sends and binds nothing
SendAndAttach_NoBind(c, offer, chat_id, env) ==
    send_message(c, chat_id, offer.id, _build_announcement(offer), env)

\* the try block of _create_offer_and_announce and _send_offer_announcement:
\* send, then bind the message that was sent
SendAndAttach(c, offer, chat_id, env) ==
    LET Attach(c1) ==
            IF Alive(c1) /\ LastEv(c1).ok
            THEN StoreCall(c1, "attach_announcement", offer.id,
                     OfferStore_attach_announcement(c1.offers, offer.id, chat_id,
                                                    LastEv(c1).mid))
            ELSE c1
    IN  Attach(send_message(c, chat_id, offer.id, _build_announcement(offer), env))

Sent(c) == Alive(c) /\ \E i \in 1..Len(c.trace) : c.trace[i].op = "send_message" /\ c.trace[i].ok

SEND_ERROR == <<"T", "i", "m", "e", "d", " ", "o", "u", "t">>

\* bot._create_offer_and_announce
_create_offer_and_announce(c, name, quantity, price, env) ==
    LET Reply(c3, offer, chat_id) ==
            IF ~Sent(c3)
            THEN reply_text(c3, RA("Added offer #{}. Announcement failed: {}",
                                   <<IntToStr(offer.id), SEND_ERROR>>), env)
            ELSE IF chat_id = ChatOf(c.user)
            THEN reply_text(c3, RA("Added offer #{}.", <<IntToStr(offer.id)>>), env)
            ELSE reply_text(c3, RA("Added offer #{} and announced it.",
                                   <<IntToStr(offer.id)>>), env)
        Announce(c2, offer, chat) ==
            IF ~chat.ok THEN Raise(c2, "ValueError")
            ELSE Reply(SendAndAttach(c2, offer, chat.val, env), offer, chat.val)
        Created(c1) ==
            Announce(StoreRead(c1, "get_setting", 0), c1.offers[Len(c1.offers)],
                     _announcement_chat_id(c1))
    IN  Created(StoreCall(c, "add_offer", Len(c.offers) + 1,
                          OfferStore_add_offer(c.offers, name, quantity, price)))

\* a variant that announces retired offers too
_send_offer_announcement_AnyOffer(c, offer_id, env) ==
    LET Reply(c3) ==
            IF ~Sent(c3)
            THEN Return(reply_text(c3, RA("{}", <<SEND_ERROR>>), env), FALSE)
            ELSE Return(reply_text(c3, RA("Announced #{}.", <<IntToStr(offer_id)>>), env),
                        TRUE)
        Announce(c2, offer, chat) ==
            IF ~chat.ok THEN Raise(c2, "ValueError")
            ELSE Reply(SendAndAttach(c2, offer, chat.val, env))
        Found(c1, found) ==
            IF found = None
            THEN Return(reply_text(c1, R("Offer not found or inactive."), env), FALSE)
            ELSE Announce(StoreRead(c1, "get_setting", 0), found[1],
                          _announcement_chat_id(c1))
    IN  Found(StoreRead(c, "get_offer", offer_id), OfferStore_get_offer(c.offers, offer_id))

\* bot._send_offer_announcement; ret is the value returned
_send_offer_announcement(c, offer_id, env) ==
    LET Reply(c3) ==
            IF ~Sent(c3)
            THEN Return(reply_text(c3, RA("{}", <<SEND_ERROR>>), env), FALSE)
            ELSE Return(reply_text(c3, RA("Announced #{}.", <<IntToStr(offer_id)>>), env),
                        TRUE)
        Announce(c2, offer, chat) ==
            IF ~chat.ok THEN Raise(c2, "ValueError")
            ELSE Reply(SendAndAttach(c2, offer, chat.val, env))
        Found(c1, found) ==
            IF found = None \/ ~found[1].active
            THEN Return(reply_text(c1, R("Offer not found or inactive."), env), FALSE)
            ELSE Announce(StoreRead(c1, "get_setting", 0), found[1],
                          _announcement_chat_id(c1))
    IN  Found(StoreRead(c, "get_offer", offer_id), OfferStore_get_offer(c.offers, offer_id))

Deleted(c) ==
    \E i \in 1..Len(c.trace) : c.trace[i].op = "delete_message" /\ c.trace[i].ok

\* a variant that deletes the announcement first and writes the row after
_mark_sold_out_DeleteFirst(c, offer, env) ==
    LET Reply(c3) ==
            IF Deleted(c3)
            THEN reply_text(c3, RA("Marked #{} as sold out and removed the announcement.",
                                   <<IntToStr(offer.id)>>), env)
            ELSE reply_text(c3, RA("Marked #{} as sold out.", <<IntToStr(offer.id)>>), env)
        Deactivate(c2) ==
            Reply(StoreCall(c2, "set_active", offer.id,
                            OfferStore_set_active(c2.offers, offer.id, FALSE)))
        Zero(c1) ==
            Deactivate(StoreCall(c1, "update_quantity", offer.id,
                                 OfferStore_update_quantity(c1.offers, offer.id, 0)))
    IN  Zero(IF Truthy(offer.announce_chat_id) /\ Truthy(offer.announce_message_id)
             THEN delete_message(c, offer.announce_chat_id[1],
                                 offer.announce_message_id[1], env)
             ELSE c)

\* a variant that retires the offer only once its announcement is gone
_mark_sold_out_Blocking(c, offer, env) ==
    LET Bound == Truthy(offer.announce_chat_id) /\ Truthy(offer.announce_message_id)
        Retire(c1) ==
            StoreCall(StoreCall(c1, "update_quantity", offer.id,
                                OfferStore_update_quantity(c1.offers, offer.id, 0)),
                      "set_active", offer.id,
                      OfferStore_set_active(
                          OfferStore_update_quantity(c1.offers, offer.id, 0), offer.id, FALSE))
        Tried(c1) ==
            IF Deleted(c1)
            THEN reply_text(Retire(c1),
                            RA("Marked #{} as sold out and removed the announcement.",
                               <<IntToStr(offer.id)>>), env)
            ELSE reply_text(c1, RA("Marked #{} as sold out.", <<IntToStr(offer.id)>>), env)
    IN  IF Bound
        THEN Tried(delete_message(c, offer.announce_chat_id[1],
                                  offer.announce_message_id[1], env))
        ELSE reply_text(Retire(c), RA("Marked #{} as sold out.", <<IntToStr(offer.id)>>), env)

\* a variant that waits for the delete between its two updates
_mark_sold_out_AwaitBetween(c, offer, env) ==
    LET Reply(c3) ==
            IF Deleted(c3)
            THEN reply_text(c3, RA("Marked #{} as sold out and removed the announcement.",
                                   <<IntToStr(offer.id)>>), env)
            ELSE reply_text(c3, RA("Marked #{} as sold out.", <<IntToStr(offer.id)>>), env)
        Deactivate(c2) ==
            Reply(StoreCall(c2, "set_active", offer.id,
                            OfferStore_set_active(c2.offers, offer.id, FALSE)))
        Delete(c1) ==
            Deactivate(IF Truthy(offer.announce_chat_id) /\ Truthy(offer.announce_message_id)
                       THEN delete_message(c1, offer.announce_chat_id[1],
                                           offer.announce_message_id[1], env)
                       ELSE c1)
    IN  Delete(StoreCall(c, "update_quantity", offer.id,
                         OfferStore_update_quantity(c.offers, offer.id, 0)))

\* bot._mark_sold_out, on the row the caller read
_mark_sold_out(c, offer, env) ==
    LET Reply(c3) ==
            IF Deleted(c3)
            THEN reply_text(c3, RA("Marked #{} as sold out and removed the announcement.",
                                   <<IntToStr(offer.id)>>), env)
            ELSE reply_text(c3, RA("Marked #{} as sold out.", <<IntToStr(offer.id)>>), env)
        Delete(c2) ==
            Reply(IF Truthy(offer.announce_chat_id) /\ Truthy(offer.announce_message_id)
                  THEN delete_message(c2, offer.announce_chat_id[1],
                                      offer.announce_message_id[1], env)
                  ELSE c2)
        Deactivate(c1) ==
            Delete(StoreCall(c1, "set_active", offer.id,
                             OfferStore_set_active(c1.offers, offer.id, FALSE)))
    IN  Deactivate(StoreCall(c, "update_quantity", offer.id,
                             OfferStore_update_quantity(c.offers, offer.id, 0)))

(***************************************************************************)
(* Command handlers (src/bot.py).  `text` is the whole message text.       *)
(***************************************************************************)
\* bot._command_text: what follows the first blank, stripped
_command_text(text) ==
    IF \E i \in 1..Len(text) : text[i] = " "
    THEN LET k == CHOOSE i \in 1..Len(text) :
                      text[i] = " " /\ \A j \in 1..(i - 1) : text[j] # " "
         IN  Strip(SubSeq(text, k + 1, Len(text)))
    ELSE <<>>

\* a variant that lets the quantity 0 through
_parse_add_payload_ZeroOk(payload) ==
    LET bad(e) == [status |-> e, name |-> <<>>, quantity |-> 0, price |-> <<>>]
        Priced(name, quantity, price) ==
            IF price.status # "ok" THEN bad(price.status)
            ELSE [status |-> "ok", name |-> name, quantity |-> quantity,
                  price |-> price.val]
        Counted(name, quantity, price_text) ==
            IF ~quantity.ok THEN bad("ValueError")
            ELSE Priced(name, quantity.val, normalize_price(price_text))
        Split(parts) ==
            IF Len(parts) # 3 THEN bad("ValueError")
            ELSE IF Strip(parts[1]) = <<>> THEN bad("ValueError")
            ELSE Counted(Strip(parts[1]), parse_quantity(Strip(parts[2])), Strip(parts[3]))
    IN  Split(SplitOn(payload, "|"))

\* bot._parse_add_payload; status is "ok", "ValueError" or "InvalidOperation"
_parse_add_payload(payload) ==
    LET bad(e) == [status |-> e, name |-> <<>>, quantity |-> 0, price |-> <<>>]
        Priced(name, quantity, price) ==
            IF price.status # "ok" THEN bad(price.status)
            ELSE [status |-> "ok", name |-> name, quantity |-> quantity,
                  price |-> price.val]
        Counted(name, quantity, price_text) ==
            IF ~quantity.ok THEN bad("ValueError")
            ELSE IF quantity.val <= 0 THEN bad("ValueError")
            ELSE Priced(name, quantity.val, normalize_price(price_text))
        Split(parts) ==
            IF Len(parts) # 3 THEN bad("ValueError")
            ELSE IF Strip(parts[1]) = <<>> THEN bad("ValueError")
            ELSE Counted(Strip(parts[1]), parse_quantity(Strip(parts[2])), Strip(parts[3]))
    IN  Split(SplitOn(payload, "|"))

\* the reply of an `except ValueError as exc` branch: str(exc)
ReplyError(c, env) == reply_text(c, R("str(exc)"), env)

\* bot.show_menu and bot.start
show_menu(c, env) ==
    reply_text(c, RA("Welcome! Tap a button below to get started.",
                     IF _is_admin(c.user) THEN <<<<"a", "d", "m", "i", "n">>>> ELSE <<>>), env)

\* bot.help_command
help_command(c, env) ==
    reply_text(c, RA("Customer commands:",
                     IF _is_admin(c.user) THEN <<<<"a", "d", "m", "i", "n">>>> ELSE <<>>), env)

\* a variant that cancels for admins only
cancel_AdminOnly(c, env) ==
    IF _is_admin(c.user)
    THEN reply_text(_clear_flow(c), R("Canceled. You're back at the main menu."), env)
    ELSE RequireAdminRefusal(c, env)

\* bot.cancel
cancel(c, env) ==
    reply_text(_clear_flow(c), R("Canceled. You're back at the main menu."), env)

\* bot.stock
stock(c, env) ==
    LET Listed(c1, rows) ==
            IF rows = <<>> THEN reply_text(c1, R("All sold out right now."), env)
            ELSE reply_text(c1, RA("Current stock:", _format_offers(rows)), env)
    IN  Listed(StoreRead(c, "list_offers", 0), OfferStore_list_offers(c.offers, TRUE))

\* a variant that discards the pending flow only when the payload is accepted
add_offer_ClearOnSuccess(c, text, env) ==
    LET Parsed(c1, p) ==
            IF p.status = "ValueError" THEN ReplyError(c1, env)
            ELSE IF p.status # "ok" THEN Raise(c1, p.status)
            ELSE _create_offer_and_announce(_clear_flow(c1), p.name, p.quantity, p.price, env)
        Given(c1, payload) ==
            IF payload = <<>> THEN reply_text(c1, R("Usage: /add Name | qty | price"), env)
            ELSE Parsed(c1, _parse_add_payload(payload))
    IN  IF ~_require_admin(c.user) THEN RequireAdminRefusal(c, env)
        ELSE Given(c, _command_text(text))

\* bot.add_offer
add_offer(c, text, env) ==
    LET Parsed(c1, p) ==
            IF p.status = "ValueError" THEN ReplyError(c1, env)
            ELSE IF p.status # "ok" THEN Raise(c1, p.status)
            ELSE _create_offer_and_announce(c1, p.name, p.quantity, p.price, env)
        Given(c1, payload) ==
            IF payload = <<>> THEN reply_text(c1, R("Usage: /add Name | qty | price"), env)
            ELSE Parsed(c1, _parse_add_payload(payload))
    IN  IF ~_require_admin(c.user) THEN RequireAdminRefusal(c, env)
        ELSE Given(_clear_flow(c), _command_text(text))

\* a variant that writes the quantity and leaves the active flag alone
UpdateQuantity_NoActivate(c, offer_id, quantity, env) ==
    reply_text(StoreCall(c, "update_quantity", offer_id,
                         OfferStore_update_quantity(c.offers, offer_id, quantity)),
               RA("Updated #{} quantity to {}.",
                  <<IntToStr(offer_id), IntToStr(quantity)>>), env)

\* the tail shared by set_quantity and the set_qty_value step: the two updates
UpdateQuantity(c, offer_id, quantity, env) ==
    LET Activate(c1) ==
            StoreCall(c1, "set_active", offer_id,
                      OfferStore_set_active(c1.offers, offer_id, TRUE))
    IN  reply_text(Activate(StoreCall(c, "update_quantity", offer_id,
                                      OfferStore_update_quantity(c.offers, offer_id, quantity))),
                   RA("Updated #{} quantity to {}.",
                      <<IntToStr(offer_id), IntToStr(quantity)>>), env)

\* bot.set_quantity
set_quantity(c, text, env) ==
    LET Read(c2, row, offer_id, quantity) ==
            IF row = None THEN reply_text(c2, R("Offer not found."), env)
            ELSE IF quantity = 0 THEN _mark_sold_out(c2, row[1], env)
            ELSE UpdateQuantity(c2, offer_id, quantity, env)
        Parsed(c1, id, qty) ==
            IF ~id.ok \/ ~qty.ok THEN ReplyError(c1, env)
            ELSE Read(StoreRead(c1, "get_offer", id.val),
                      OfferStore_get_offer(c1.offers, id.val), id.val, qty.val)
        Split(c1, payload, parts) ==
            IF payload = <<>> \/ Len(parts) # 2
            THEN reply_text(c1, R("Usage: /setqty <id> <qty>"), env)
            ELSE Parsed(c1, _parse_offer_id(parts[1]), parse_quantity(parts[2]))
        Given(c1, payload) == Split(c1, payload, SplitWs(payload))
    IN  IF ~_require_admin(c.user) THEN RequireAdminRefusal(c, env)
        ELSE Given(_clear_flow(c), _command_text(text))

\* the tail shared by set_price and the set_price_value step
UpdatePrice(c, offer_id, price, env) ==
    reply_text(StoreCall(c, "update_price", offer_id,
                         OfferStore_update_price(c.offers, offer_id, price)),
               RA("Updated #{} price to ${}.", <<IntToStr(offer_id), price>>), env)

\* bot.set_price
set_price(c, text, env) ==
    LET Parsed(c1, id, price) ==
            IF ~id.ok \/ price.status = "ValueError" THEN ReplyError(c1, env)
            ELSE IF price.status # "ok" THEN Raise(c1, price.status)
            ELSE IF OfferStore_get_offer(c1.offers, id.val) = None
            THEN reply_text(StoreRead(c1, "get_offer", id.val), R("Offer not found."), env)
            ELSE UpdatePrice(StoreRead(c1, "get_offer", id.val), id.val, price.val, env)
        Split(c1, payload, parts) ==
            IF payload = <<>> \/ Len(parts) # 2
            THEN reply_text(c1, R("Usage: /setprice <id> <price>"), env)
            ELSE Parsed(c1, _parse_offer_id(parts[1]), normalize_price(parts[2]))
        Given(c1, payload) == Split(c1, payload, SplitWs(payload))
    IN  IF ~_require_admin(c.user) THEN RequireAdminRefusal(c, env)
        ELSE Given(_clear_flow(c), _command_text(text))

\* bot.sold_out
sold_out(c, text, env) ==
    LET Read(c2, row) ==
            IF row = None THEN reply_text(c2, R("Offer not found."), env)
            ELSE _mark_sold_out(c2, row[1], env)
        Parsed(c1, id) ==
            IF ~id.ok THEN ReplyError(c1, env)
            ELSE Read(StoreRead(c1, "get_offer", id.val),
                      OfferStore_get_offer(c1.offers, id.val))
        Given(c1, payload) ==
            IF payload = <<>> THEN reply_text(c1, R("Usage: /soldout <id>"), env)
            ELSE Parsed(c1, _parse_offer_id(payload))
    IN  IF ~_require_admin(c.user) THEN RequireAdminRefusal(c, env)
        ELSE Given(_clear_flow(c), _command_text(text))

\* bot.announce
announce(c, text, env) ==
    LET Parsed(c1, id) ==
            IF ~id.ok THEN ReplyError(c1, env)
            ELSE _send_offer_announcement(c1, id.val, env)
        Given(c1, payload) ==
            IF payload = <<>> THEN reply_text(c1, R("Usage: /announce <id>"), env)
            ELSE Parsed(c1, _parse_offer_id(payload))
    IN  IF ~_require_admin(c.user) THEN RequireAdminRefusal(c, env)
        ELSE Given(_clear_flow(c), _command_text(text))

\* bot.set_announce
set_announce(c, text, env) ==
    LET Stored(c2, chat_id) ==
            IF ChatOf(c.user) = chat_id
            THEN reply_text(c2, R("This chat is now set for announcements."), env)
            ELSE reply_text(c2, RA("Announcement chat set to {}.", <<IntToStr(chat_id)>>),
                            env)
        Store(c1, chat_id) ==
            Stored(IF Alive(c1)
                   THEN Halt([c1 EXCEPT !.settings = OfferStore_set_setting(
                                            @, SETTING_ANNOUNCE_CHAT_ID, IntToStr(chat_id)),
                                        !.trace = Append(@, Ev("set_setting", 0, chat_id, 0,
                                                               TRUE))])
                   ELSE c1, chat_id)
        Parsed(c1, given) ==
            IF ~given.ok
            THEN reply_text(c1, R("Chat id must be a number. Example: /setannounce -1001234567890"), env)
            ELSE Store(c1, given.val)
        Given(c1, payload) ==
            IF payload # <<>> THEN Parsed(c1, PyInt(payload))
            ELSE Store(c1, ChatOf(c.user))
    IN  IF ~_require_admin(c.user) THEN RequireAdminRefusal(c, env)
        ELSE Given(_clear_flow(c), _command_text(text))

\* bot.upload_command
upload_command(c, env) ==
    IF ~_require_admin(c.user) THEN RequireAdminRefusal(c, env)
    ELSE reply_text(_set_flow(_clear_flow(c), FLOW_UPLOAD_WAIT_FILE, EmptyData),
                    R("Send the file as a document to upload it."), env)

(***************************************************************************)
(* The conversation flow engine (src/bot.py).                              *)
(***************************************************************************)
\* _start_add_flow, _start_set_qty_flow, _start_set_price_flow,
\* _start_sold_out_flow, _start_announce_flow: the same body, one tag each
StartFlow(c, flow, prompt, env) ==
    IF ~_require_admin(c.user) THEN RequireAdminRefusal(c, env)
    ELSE reply_text(_set_flow(_clear_flow(c), flow, EmptyData), R(prompt), env)

_start_add_flow(c, env) ==
    StartFlow(c, FLOW_ADD_NAME, "Let's add a new offer. Send the item name.", env)

_start_set_qty_flow(c, env) ==
    StartFlow(c, FLOW_SET_QTY_ID, "Send the offer ID to update its quantity.", env)

_start_set_price_flow(c, env) ==
    StartFlow(c, FLOW_SET_PRICE_ID, "Send the offer ID to update its price.", env)

_start_sold_out_flow(c, env) ==
    StartFlow(c, FLOW_SOLD_OUT_ID, "Send the offer ID to mark it sold out.", env)

_start_announce_flow(c, env) ==
    StartFlow(c, FLOW_ANNOUNCE_ID, "Send the offer ID to re-announce it.", env)

\* data.get("name", "").strip() and int(data.get(key, 0))
DataName(data) == IF data.name = None THEN <<>> ELSE Strip(data.name[1])

DataInt(opt) == IF opt = None THEN 0 ELSE opt[1]

\* a variant of the add_name step that goes on to the price step
FlowAddName_SkipQty(c, text, env) ==
    LET name == Strip(text)
    IN  IF name = <<>> THEN reply_text(c, R("Please send a name for the offer."), env)
        ELSE reply_text(_set_flow(c, FLOW_ADD_PRICE, [c.data EXCEPT !.name = <<name>>]),
                        R("Almost done. Send the price (number)."), env)

\* _handle_flow_text, the add_name step
FlowAddName(c, text, env) ==
    LET name == Strip(text)
    IN  IF name = <<>> THEN reply_text(c, R("Please send a name for the offer."), env)
        ELSE reply_text(_set_flow(c, FLOW_ADD_QTY, [c.data EXCEPT !.name = Some(name)]),
                        R("Great. Now send the quantity (whole number)."), env)

\* a variant of the add_qty step without the check for zero
FlowAddQty_ZeroOk(c, text, env) ==
    LET quantity == parse_quantity(text)
    IN  IF ~quantity.ok THEN ReplyError(c, env)
        ELSE reply_text(_set_flow(c, FLOW_ADD_PRICE,
                                  [c.data EXCEPT !.quantity = Some(quantity.val)]),
                        R("Almost done. Send the price (number)."), env)

\* the add_qty step
FlowAddQty(c, text, env) ==
    LET quantity == parse_quantity(text)
    IN  IF ~quantity.ok THEN ReplyError(c, env)
        ELSE IF quantity.val <= 0
        THEN reply_text(c, R("Quantity must be greater than zero."), env)
        ELSE reply_text(_set_flow(c, FLOW_ADD_PRICE,
                                  [c.data EXCEPT !.quantity = Some(quantity.val)]),
                        R("Almost done. Send the price (number)."), env)

\* the add_price step
FlowAddPrice(c, text, env) ==
    LET price == normalize_price(text)
    IN  IF price.status = "ValueError" THEN ReplyError(c, env)
        ELSE IF price.status # "ok" THEN Raise(c, price.status)
        ELSE _clear_flow(_create_offer_and_announce(
                 c, DataName(c.data), DataInt(c.data.quantity), price.val, env))

\* a variant of the id steps that ends the flow when the offer is not found
FlowTargetId_Abort(c, text, next, prompt, env) ==
    LET id == _parse_offer_id(text)
        c1 == StoreRead(c, "get_offer", id.val)
    IN  IF ~id.ok THEN ReplyError(c, env)
        ELSE IF OfferStore_get_offer(c.offers, id.val) = None
        THEN _clear_flow(reply_text(c1, R("Offer not found. Send a valid offer ID."), env))
        ELSE reply_text(_set_flow(c1, next, [c.data EXCEPT !.offer_id = <<id.val>>]),
                        R(prompt), env)

\* the set_qty_id and set_price_id steps: the same body, one next tag each
FlowTargetId(c, text, next, prompt, env) ==
    LET id == _parse_offer_id(text)
        c1 == StoreRead(c, "get_offer", id.val)
    IN  IF ~id.ok THEN ReplyError(c, env)
        ELSE IF OfferStore_get_offer(c.offers, id.val) = None
        THEN reply_text(c1, R("Offer not found. Send a valid offer ID."), env)
        ELSE reply_text(_set_flow(c1, next, [c.data EXCEPT !.offer_id = Some(id.val)]),
                        R(prompt), env)

\* the set_qty_value step
FlowSetQtyValue(c, text, env) ==
    LET quantity == parse_quantity(text)
        offer_id == DataInt(c.data.offer_id)
        c1       == StoreRead(c, "get_offer", offer_id)
        row      == OfferStore_get_offer(c.offers, offer_id)
    IN  IF ~quantity.ok THEN ReplyError(c, env)
        ELSE IF row = None
        THEN _set_flow(reply_text(c1, R("Offer not found. Send a valid offer ID."), env),
                       FLOW_SET_QTY_ID, EmptyData)
        ELSE IF quantity.val = 0 THEN _clear_flow(_mark_sold_out(c1, row[1], env))
        ELSE _clear_flow(UpdateQuantity(c1, offer_id, quantity.val, env))

\* the set_price_value step
FlowSetPriceValue(c, text, env) ==
    LET price    == normalize_price(text)
        offer_id == DataInt(c.data.offer_id)
        c1       == StoreRead(c, "get_offer", offer_id)
    IN  IF price.status = "ValueError" THEN ReplyError(c, env)
        ELSE IF price.status # "ok" THEN Raise(c, price.status)
        ELSE IF OfferStore_get_offer(c.offers, offer_id) = None
        THEN _set_flow(reply_text(c1, R("Offer not found. Send a valid offer ID."), env),
                       FLOW_SET_PRICE_ID, EmptyData)
        ELSE _clear_flow(UpdatePrice(c1, offer_id, price.val, env))

\* a variant of the sold_out_id step that leaves the flow pending
FlowSoldOutId_NoClear(c, text, env) ==
    LET id  == _parse_offer_id(text)
        c1  == StoreRead(c, "get_offer", id.val)
        row == OfferStore_get_offer(c.offers, id.val)
    IN  IF ~id.ok THEN ReplyError(c, env)
        ELSE IF row = None
        THEN reply_text(c1, R("Offer not found. Send a valid offer ID."), env)
        ELSE _mark_sold_out(c1, row[1], env)

\* the sold_out_id step
FlowSoldOutId(c, text, env) ==
    LET id  == _parse_offer_id(text)
        c1  == StoreRead(c, "get_offer", id.val)
        row == OfferStore_get_offer(c.offers, id.val)
    IN  IF ~id.ok THEN ReplyError(c, env)
        ELSE IF row = None
        THEN reply_text(c1, R("Offer not found. Send a valid offer ID."), env)
        ELSE _clear_flow(_mark_sold_out(c1, row[1], env))

\* the announce_id step: the flow is cleared only when the announcement was sent
FlowAnnounceId(c, text, env) ==
    LET id == _parse_offer_id(text)
        c1 == _send_offer_announcement(c, id.val, env)
    IN  IF ~id.ok THEN ReplyError(c, env)
        ELSE IF c1.ret THEN _clear_flow(c1) ELSE c1

\* a variant whose file step takes a text as the end of the upload flow
_handle_flow_text_FileStepEnds(c, text, env) ==
    IF c.flow = NoFlow THEN c
    ELSE IF ~_is_admin(c.user)
    THEN reply_text(_clear_flow(c),
                    R("Not authorized. Ask the owner to add you as an admin."), env)
    ELSE CASE c.flow = FLOW_ADD_NAME -> FlowAddName(c, text, env)
           [] c.flow = FLOW_ADD_QTY -> FlowAddQty(c, text, env)
           [] c.flow = FLOW_ADD_PRICE -> FlowAddPrice(c, text, env)
           [] c.flow = FLOW_SET_QTY_ID ->
                FlowTargetId(c, text, FLOW_SET_QTY_VALUE,
                             "Send the new quantity (0 to mark sold out).", env)
           [] c.flow = FLOW_SET_QTY_VALUE -> FlowSetQtyValue(c, text, env)
           [] c.flow = FLOW_SET_PRICE_ID ->
                FlowTargetId(c, text, FLOW_SET_PRICE_VALUE, "Send the new price.", env)
           [] c.flow = FLOW_SET_PRICE_VALUE -> FlowSetPriceValue(c, text, env)
           [] c.flow = FLOW_SOLD_OUT_ID -> FlowSoldOutId(c, text, env)
           [] c.flow = FLOW_ANNOUNCE_ID -> FlowAnnounceId(c, text, env)
           [] c.flow = FLOW_UPLOAD_WAIT_FILE ->
                _clear_flow(reply_text(c, R("Please send a file as a document, or /cancel to stop."), env))
           [] OTHER -> c

\* bot._handle_flow_text
_handle_flow_text(c, text, env) ==
    IF c.flow = NoFlow THEN c
    ELSE IF ~_is_admin(c.user)
    THEN reply_text(_clear_flow(c),
                    R("Not authorized. Ask the owner to add you as an admin."), env)
    ELSE CASE c.flow = FLOW_ADD_NAME -> FlowAddName(c, text, env)
           [] c.flow = FLOW_ADD_QTY -> FlowAddQty(c, text, env)
           [] c.flow = FLOW_ADD_PRICE -> FlowAddPrice(c, text, env)
           [] c.flow = FLOW_SET_QTY_ID ->
                FlowTargetId(c, text, FLOW_SET_QTY_VALUE,
                             "Send the new quantity (0 to mark sold out).", env)
           [] c.flow = FLOW_SET_QTY_VALUE -> FlowSetQtyValue(c, text, env)
           [] c.flow = FLOW_SET_PRICE_ID ->
                FlowTargetId(c, text, FLOW_SET_PRICE_VALUE, "Send the new price.", env)
           [] c.flow = FLOW_SET_PRICE_VALUE -> FlowSetPriceValue(c, text, env)
           [] c.flow = FLOW_SOLD_OUT_ID -> FlowSoldOutId(c, text, env)
           [] c.flow = FLOW_ANNOUNCE_ID -> FlowAnnounceId(c, text, env)
           [] c.flow = FLOW_UPLOAD_WAIT_FILE ->
                reply_text(c, R("Please send a file as a document, or /cancel to stop."), env)
           [] OTHER -> c

\* bot.text_stock_trigger
text_stock_trigger(c, text, env) ==
    IF Lower(Strip(text)) \in {<<"s", "t", "o", "c", "k">>, <<"o", "f", "f", "e", "r", "s">>,
                               <<"l", "i", "s", "t">>}
    THEN stock(c, env)
    ELSE c

\* the reply to a menu label that arrives while a flow is pending
STEP_PENDING == "You're in the middle of a step. Send /cancel to stop."

\* a variant that hands every label but help and menu to the pending step
PendingFlowText_Unguarded(c, text, env) ==
    IF text = MENU_HELP THEN help_command(c, env)
    ELSE IF text = MENU_MENU THEN show_menu(c, env)
    ELSE _handle_flow_text(c, text, env)

\* bot.handle_text, the branch taken while a flow is pending
PendingFlowText(c, text, env) ==
    IF text = MENU_HELP THEN help_command(c, env)
    ELSE IF text = MENU_MENU THEN show_menu(c, env)
    ELSE IF text \in MENU_LABELS THEN reply_text(c, R(STEP_PENDING), env)
    ELSE _handle_flow_text(c, text, env)

\* bot.handle_text, for a message whose text is not empty
handle_text(c, raw, env) ==
    LET text == Strip(raw)
    IN  IF text = MENU_CANCEL THEN cancel(c, env)
        ELSE IF c.flow # NoFlow THEN PendingFlowText(c, text, env)
        ELSE CASE text = MENU_MENU -> show_menu(c, env)
               [] text = MENU_HELP -> help_command(c, env)
               [] text = MENU_STOCK -> stock(c, env)
               [] text = MENU_ADD -> _start_add_flow(c, env)
               [] text = MENU_SET_QTY -> _start_set_qty_flow(c, env)
               [] text = MENU_SET_PRICE -> _start_set_price_flow(c, env)
               [] text = MENU_SOLD_OUT -> _start_sold_out_flow(c, env)
               [] text = MENU_ANNOUNCE -> _start_announce_flow(c, env)
               [] text = MENU_SET_ANNOUNCE -> set_announce(c, raw, env)
               [] text = MENU_UPLOAD -> upload_command(c, env)
               [] OTHER -> text_stock_trigger(c, text, env)

(***************************************************************************)
(* The upload helper (src/announcement_stock_bot.py).  A file is its name, *)
(* its lines and its size on disk; an upload attempt succeeds or raises as *)
(* the environment decides.                                                *)
(***************************************************************************)
BYTES_PER_MB == 1048576

DEFAULT_THRESHOLD_MB == 200

\* bot.UPLOAD_THRESHOLD_MB: the environment's value, DEFAULT_THRESHOLD_MB when unset
UPLOAD_THRESHOLD_MB == DEFAULT_THRESHOLD_MB

StartsWith(t, prefix) == Len(t) >= Len(prefix) /\ SubSeq(t, 1, Len(prefix)) = prefix

HOST_CATBOX == <<"C", "a", "t", "b", "o", "x">>

HOST_GOFILE == <<"G", "o", "f", "i", "l", "e">>

\* what the n-th call of upload_fn returns when it succeeds, and the text of
\* the exception it raises when it fails
UploadUrl(n) ==
    <<"h", "t", "t", "p", "s", ":", "/", "/", "h", "o", "s", "t", "/", "f", "i", "l", "e">>
        \o (IF n = 1 THEN <<>> ELSE IntToStr(n))

UploadError(n) == IF n = 1 THEN <<"t", "i", "m", "e", "o", "u", "t">> ELSE <<"5", "0", "3">>

UploadFailed(error_text) ==
    <<"U", "p", "l", "o", "a", "d", " ", "f", "a", "i", "l", "e", "d", ":", " ">> \o error_text

\* a variant that gives up after the first failure
_upload_with_retry_NoRetry(host, env) ==
    IF env.upload1
    THEN [host |-> host, url |-> UploadUrl(1), success |-> TRUE, error |-> <<>>, calls |-> 1,
          attempts |-> <<host>>]
    ELSE [host |-> host, url |-> UploadFailed(UploadError(1)), success |-> FALSE,
          error |-> <<UploadError(1)>>, calls |-> 1, attempts |-> <<host>>]

\* AnnouncementUploader._upload_with_retry: one retry, then the second error;
\* attempts are the hosts upload_fn has called, in order
_upload_with_retry(host, env) ==
    IF env.upload1
    THEN [host |-> host, url |-> UploadUrl(1), success |-> TRUE, error |-> None, calls |-> 1,
          attempts |-> <<host>>]
    ELSE IF env.upload2
    THEN [host |-> host, url |-> UploadUrl(2), success |-> TRUE, error |-> None, calls |-> 2,
          attempts |-> <<host, host>>]
    ELSE [host |-> host, url |-> UploadFailed(UploadError(2)), success |-> FALSE,
          error |-> Some(UploadError(2)), calls |-> 2, attempts |-> <<host, host>>]

\* a variant that sends a file of exactly the threshold size to Gofile
upload_Below(size_bytes, threshold_mb, env) ==
    IF size_bytes < threshold_mb * BYTES_PER_MB
    THEN _upload_with_retry(HOST_CATBOX, env)
    ELSE _upload_with_retry(HOST_GOFILE, env)

\* AnnouncementUploader.upload: size_mb <= threshold_mb picks Catbox, else Gofile
upload(size_bytes, threshold_mb, env) ==
    IF size_bytes <= threshold_mb * BYTES_PER_MB
    THEN _upload_with_retry(HOST_CATBOX, env)
    ELSE _upload_with_retry(HOST_GOFILE, env)

\* f"{n:,}"
RECURSIVE WithCommas(_)
WithCommas(n) ==
    IF n < 1000 THEN NatToStr(n)
    ELSE WithCommas(n \div 1000) \o <<",">>
             \o <<Digits[((n \div 100) % 10) + 1], Digits[((n \div 10) % 10) + 1],
                  Digits[(n % 10) + 1]>>

\* _scan_file: the lines, and those with a ":" and without "[NOT_SAVED]"
ValidUlp(lines) ==
    Cardinality({i \in 1..Len(lines) :
        Contains(lines[i], <<":">>) /\ ~Contains(lines[i], <<"[", "N", "O", "T", "_", "S", "A", "V", "E", "D", "]">>)})

_scan_file(file) ==
    [filename |-> file.file_name, total_lines |-> Len(file.lines),
     valid_ulp |-> ValidUlp(file.lines), size_bytes |-> file.size_bytes]

\* f"{metrics.size_mb:.2f}": the size in MB to two decimals
FormatSizeMb(size_bytes) ==
    LET whole == size_bytes \div BYTES_PER_MB
        rem   == (size_bytes % BYTES_PER_MB) * 100
        q     == rem \div BYTES_PER_MB
        r     == rem % BYTES_PER_MB
        frac  == IF 2 * r > BYTES_PER_MB \/ (2 * r = BYTES_PER_MB /\ q % 2 = 1)
                 THEN q + 1 ELSE q
    IN  FormatFixed2(whole * 100 + frac)

\* _resolve_header
_resolve_header(custom_header, display_count, metrics) ==
    IF custom_header # None /\ custom_header[1] # <<>>
    THEN Strip([i \in 1..Len(custom_header[1]) |->
                   IF custom_header[1][i] = "\n" THEN " " ELSE custom_header[1][i]])
    ELSE IF display_count # None
    THEN <<"T", "o", "t", "a", "l", " ", "l", "i", "n", "e", "s", " ", "o", "n", " ", "t", "h", "i", "s", " ", "a", "r", "e", " ">> \o Strip(display_count[1]) \o <<",", " ", "b", "u", "t", " ", "h", "e", "r", "e", " ", "i", "s", " ">> \o WithCommas(metrics.total_lines)
    ELSE <<"N", "e", "w", " ", "S", "a", "m", "p", "l", "e", "!">>

NOW_TEXT == <<"2", "0", "2", "6", "-", "0", "1", "-", "0", "1", " ", "0", "0", ":", "0", "0", ":", "0", "0">>

\* a variant whose success line does not look at the upload
_build_message_AlwaysSuccess(header, metrics, up) ==
    header \o <<"\n">> \o <<"F", "i", "l", "e", ":", " ">> \o metrics.filename
      \o <<"\n">> \o up.host \o <<":", " ">> \o up.url
      \o <<"\n">> \o <<"S", "u", "c", "c", "e", "s", "s", ":", " ", "1", "/", "1">>

\* _build_message: the eight lines, joined by "\n"
_build_message(header, metrics, up) ==
    header \o <<"\n">> \o <<"F", "i", "l", "e", ":", " ">> \o metrics.filename
      \o <<"\n">> \o <<"V", "a", "l", "i", "d", " ", "U", "L", "P", ":", " ">> \o WithCommas(metrics.valid_ulp)
      \o <<"\n">> \o <<"V", "a", "l", "i", "d", " ", "L", "i", "n", "e", "s", ":", " ">> \o WithCommas(metrics.total_lines)
      \o <<"\n">> \o <<"S", "i", "z", "e", ":", " ">> \o FormatSizeMb(metrics.size_bytes) \o <<" ", "M", "B">>
      \o <<"\n">> \o up.host \o <<":", " ">> \o up.url
      \o <<"\n">> \o <<"S", "u", "c", "c", "e", "s", "s", ":", " ">> \o (IF up.success THEN <<"1", "/", "1">> ELSE <<"0", "/", "1">>)
      \o <<"\n">> \o <<"T", "i", "m", "e", ":", " ">> \o NOW_TEXT

\* generate_announcement for the one file handle_document passes
generate_announcement(file, custom_header, display_count, threshold_mb, env) ==
    LET metrics == _scan_file(file)
        up      == upload(metrics.size_bytes, threshold_mb, env)
    IN  <<_build_message(_resolve_header(custom_header, display_count, metrics), metrics, up)>>

\* bot._parse_upload_caption: (custom_header, display_count)
_parse_upload_caption(caption) ==
    LET trimmed  == IF caption = None THEN <<>> ELSE Strip(caption[1])
        lowered  == Lower(trimmed)
        counts   == {<<"d", "i", "s", "p", "l", "a", "y", ":">>, <<"d", "i", "s", "p", "l", "a", "y", "=">>, <<"d", "i", "s", "p", "l", "a", "y", " ">>, <<"c", "o", "u", "n", "t", ":">>, <<"c", "o", "u", "n", "t", "=">>, <<"c", "o", "u", "n", "t", " ">>}
        headers  == {<<"h", "e", "a", "d", "e", "r", ":">>, <<"h", "e", "a", "d", "e", "r", "=">>, <<"h", "e", "a", "d", "e", "r", " ">>}
        rest(ps) == LET pre == CHOOSE x \in ps : StartsWith(lowered, x)
                    IN  Strip(SubSeq(trimmed, Len(pre) + 1, Len(trimmed)))
        opt(t)   == IF t = <<>> THEN None ELSE Some(t)
    IN  IF caption = None \/ caption[1] = <<>> THEN <<None, None>>
        ELSE IF \E x \in counts : StartsWith(lowered, x) THEN <<None, opt(rest(counts))>>
        ELSE IF \E x \in headers : StartsWith(lowered, x) THEN <<opt(rest(headers)), None>>
        ELSE <<Some(trimmed), None>>

IsSafeChar(ch) ==
    \/ IsDigit(ch) \/ ch \in {".", "_", "-"}
    \/ \E i \in 1..26 : UpperLetters[i] = ch \/ LowerLetters[i] = ch

RECURSIVE StripChar(_, _)
StripChar(t, ch) ==
    IF t # <<>> /\ Head(t) = ch THEN StripChar(Tail(t), ch) ELSE RStripChar(t, ch)

\* re.sub(r"[^A-Za-z0-9._-]+", "_", name): each run of other characters becomes "_"
RECURSIVE SubUnsafe(_)
SubUnsafe(t) ==
    IF t = <<>> THEN <<>>
    ELSE IF IsSafeChar(Head(t)) THEN <<Head(t)>> \o SubUnsafe(Tail(t))
    ELSE IF Len(t) > 1 /\ ~IsSafeChar(t[2]) THEN SubUnsafe(Tail(t))
    ELSE <<"_">> \o SubUnsafe(Tail(t))

\* bot._safe_filename: the last path component, cleaned; the fallback when empty
_safe_filename(name, fallback) ==
    LET given == IF name = <<>> THEN fallback ELSE name
        parts == SplitOn(RStripChar(given, "/"), "/")
        safe  == StripChar(SubUnsafe(parts[Len(parts)]), "_")
    IN  IF safe = <<>> THEN fallback ELSE safe

\* bot.handle_document, for a message that carries a document
handle_document(c, doc, env) ==
    IF ~_require_admin(c.user) THEN RequireAdminRefusal(c, env)
    ELSE IF c.flow # NoFlow /\ c.flow # FLOW_UPLOAD_WAIT_FILE
    THEN reply_text(c, R("You're in the middle of another step. Send /cancel to stop."), env)
    ELSE LET cap  == _parse_upload_caption(doc.caption)
             c1   == reply_text(c, R("Got it. Uploading and building the announcement now."), env)
             c2   == IF Alive(c1) /\ ~env.download THEN Raise(c1, "TelegramError")
                     ELSE IF Alive(c1)
                     THEN Halt([c1 EXCEPT !.trace = Append(@, Ev("download_to_drive", 0, 0, 0,
                                                                 TRUE))])
                     ELSE c1
             msgs == generate_announcement(
                         [doc.file EXCEPT !.file_name = _safe_filename(@, <<"u", "p", "l", "o", "a", "d", ".", "t", "x", "t">>)], cap[1], cap[2], UPLOAD_THRESHOLD_MB, env)
             tried == upload(doc.file.size_bytes, UPLOAD_THRESHOLD_MB, env)
             c2u  == IF Alive(c2)
                     THEN [c2 EXCEPT !.trace = @ \o
                              [i \in 1..Len(tried.attempts) |->
                                  EvT("upload_fn", 0, 0, 0,
                                      i = Len(tried.attempts) /\ tried.success,
                                      tried.attempts[i])]]
                     ELSE c2
             chat == _announcement_chat_id(c2)
             c3   == send_message(StoreRead(c2u, "get_setting", 0), chat.val, 0, msgs[1], env)
             c4   == IF Alive(c3) /\ ~LastEv(c3).ok THEN Raise(c3, "TelegramError") ELSE c3
         IN  IF Alive(c2) /\ ~env.scan
             THEN _clear_flow(reply_text(c2, R("Upload failed: {}"), env))
             ELSE IF ~chat.ok THEN Raise(c2, "ValueError")
             ELSE IF chat.val # ChatOf(c.user)
             THEN _clear_flow(reply_text(c4, R("Uploaded and announced in the target chat."), env))
             ELSE _clear_flow(c4)

(***************************************************************************)
(* The messages the environment sends.  Command texts are built from the   *)
(* command and its arguments; in a flow the user answers with a text of    *)
(* the kind the step asks for, valid or not, or taps a menu button.        *)
(***************************************************************************)
NAME_WIDGET == <<"W", "i", "d", "g", "e", "t">>

NameTexts == {NAME_WIDGET, <<" ">>}

QtyTexts == {<<"5">>, <<"0">>, <<"-", "1">>, <<"x">>}

PriceTexts ==
    {<<"9", ".", "9", "9", "9">>, <<"2", ".", "5", "0">>, <<"0">>, <<"x">>, <<"N", "a", "N">>}

IdTexts == {<<"1">>, <<"2">>, <<"9">>, <<"x">>}

Join(a, sep, b) == a \o sep \o b

AddPayload(n, q, p) == Join(Join(n, <<" ", "|", " ">>, q), <<"|">>, p)

\* payloads of /add: two well-formed ones, one per way of being refused
AddPayloads ==
    {AddPayload(NAME_WIDGET, <<"5">>, <<"9", ".", "9", "9", "9">>),
     AddPayload(NAME_WIDGET, <<"5">>, <<"2", ".", "5", "0">>),
     AddPayload(NAME_WIDGET, <<"0">>, <<"2", ".", "5", "0">>),
     AddPayload(<<" ">>, <<"5">>, <<"2", ".", "5", "0">>),
     AddPayload(NAME_WIDGET, <<"x">>, <<"2", ".", "5", "0">>),
     AddPayload(NAME_WIDGET, <<"5">>, <<"x">>),
     Join(NAME_WIDGET, <<"|">>, <<"5">>),
     <<>>}

\* payloads "<id> <value>": existing ids with good values, one per refusal
PairPayloads(good, bad) ==
    {Join(i, <<" ">>, v) : i \in {<<"1">>, <<"2">>}, v \in good}
    \cup {Join(i, <<" ">>, v) : i \in {<<"9">>, <<"x">>}, v \in {CHOOSE g \in good : TRUE}}
    \cup {Join(<<"1">>, <<" ">>, v) : v \in bad}
    \cup {<<>>, <<"1">>}

QtyPayloads == PairPayloads({<<"5">>, <<"0">>}, {<<"-", "1">>, <<"x">>})

PricePayloads ==
    PairPayloads({<<"9", ".", "9", "9", "9">>, <<"2", ".", "5", "0">>}, {<<"0">>, <<"x">>})

ChatPayloads == {<<>>, <<"1">>, <<"x">>}

Command(name, payload) ==
    <<"/">> \o name \o (IF payload = <<>> THEN <<>> ELSE <<" ">> \o payload)

\* the texts a user in step `flow` answers with
StepTexts(flow) ==
    CASE flow = FLOW_ADD_NAME -> NameTexts
      [] flow \in {FLOW_ADD_QTY, FLOW_SET_QTY_VALUE} -> QtyTexts
      [] flow \in {FLOW_ADD_PRICE, FLOW_SET_PRICE_VALUE} -> PriceTexts
      [] flow \in {FLOW_SET_QTY_ID, FLOW_SET_PRICE_ID, FLOW_SOLD_OUT_ID, FLOW_ANNOUNCE_ID} ->
            IdTexts
      [] OTHER -> {<<"s", "t", "o", "c", "k">>, NAME_WIDGET}

AllStepTexts == NameTexts \cup QtyTexts \cup PriceTexts \cup IdTexts

CMD_START == <<"s", "t", "a", "r", "t">>
CMD_HELP == <<"h", "e", "l", "p">>
CMD_MENU == <<"m", "e", "n", "u">>
CMD_CANCEL == <<"c", "a", "n", "c", "e", "l">>
CMD_STOCK == <<"s", "t", "o", "c", "k">>
CMD_LIST == <<"l", "i", "s", "t">>
CMD_ADD == <<"a", "d", "d">>
CMD_SETQTY == <<"s", "e", "t", "q", "t", "y">>
CMD_SETPRICE == <<"s", "e", "t", "p", "r", "i", "c", "e">>
CMD_SOLDOUT == <<"s", "o", "l", "d", "o", "u", "t">>
CMD_REMOVE == <<"r", "e", "m", "o", "v", "e">>
CMD_ANNOUNCE == <<"a", "n", "n", "o", "u", "n", "c", "e">>
CMD_SETANNOUNCE == <<"s", "e", "t", "a", "n", "n", "o", "u", "n", "c", "e">>
CMD_UPLOAD == <<"u", "p", "l", "o", "a", "d">>

\* the command a text starts with: what follows "/" up to the first blank
CommandName(text) ==
    LET Word(parts) == IF parts = <<>> THEN <<>> ELSE Tail(parts[1])
    IN  Word(SplitOn(text, " "))

(***************************************************************************)
(* The handlers main() registers, as the dispatcher applies them: a text   *)
(* that starts with "/" goes to the CommandHandler of its name (to none if *)
(* no handler has that name), a document to handle_document, every other   *)
(* text to handle_text.  A message is its text and its document.           *)
(***************************************************************************)
Dispatch(c, m, env) ==
    LET name == CommandName(m.text)
    IN  IF m.document # None THEN handle_document(c, m.document[1], env)
        ELSE IF m.text = <<>> THEN c
        ELSE IF Head(m.text) # "/" THEN handle_text(c, m.text, env)
        ELSE CASE name \in {CMD_START, CMD_MENU} -> show_menu(c, env)
               [] name = CMD_HELP -> help_command(c, env)
               [] name = CMD_CANCEL -> cancel(c, env)
               [] name \in {CMD_STOCK, CMD_LIST} -> stock(c, env)
               [] name = CMD_ADD -> add_offer(c, m.text, env)
               [] name = CMD_SETQTY -> set_quantity(c, m.text, env)
               [] name = CMD_SETPRICE -> set_price(c, m.text, env)
               [] name \in {CMD_SOLDOUT, CMD_REMOVE} -> sold_out(c, m.text, env)
               [] name = CMD_ANNOUNCE -> announce(c, m.text, env)
               [] name = CMD_SETANNOUNCE -> set_announce(c, m.text, env)
               [] name = CMD_UPLOAD -> upload_command(c, env)
               [] OTHER -> c

TextMessage(text) == [text |-> text, document |-> None]

SampleFile ==
    [file_name |-> <<"d", "a", "t", "a", ".", "t", "x", "t">>, lines |-> <<<<"a", ":", "b">>, <<"c">>>>, size_bytes |-> 250 * BYTES_PER_MB]

Documents == {[file |-> SampleFile, caption |-> None]}

DocumentMessage(doc) == [text |-> <<>>, document |-> Some(doc)]

\* the slash commands a user sends
CommandTexts ==
    {Command(n, <<>>) : n \in {CMD_START, CMD_HELP, CMD_MENU, CMD_CANCEL, CMD_STOCK,
                               CMD_LIST, CMD_UPLOAD}}
    \cup {Command(CMD_ADD, p) : p \in AddPayloads}
    \cup {Command(CMD_SETQTY, p) : p \in QtyPayloads}
    \cup {Command(CMD_SETPRICE, p) : p \in PricePayloads}
    \cup {Command(n, p) : n \in {CMD_SOLDOUT, CMD_REMOVE}, p \in IdTexts \cup {<<>>}}
    \cup {Command(CMD_ANNOUNCE, p) : p \in IdTexts \cup {<<>>}}
    \cup {Command(CMD_SETANNOUNCE, p) : p \in ChatPayloads}

\* every message of the model: commands, menu labels, step answers, documents
Messages ==
    {TextMessage(t) : t \in CommandTexts \cup MENU_LABELS \cup AllStepTexts}
    \cup {DocumentMessage(d) : d \in Documents}

(***************************************************************************)
(* What the transport and the upload hosts do during one handler: whether  *)
(* send_message, delete_message, the download and the scan succeed, which  *)
(* reply_text call raises (0: none), and the two upload attempts.          *)
(***************************************************************************)
EnvOk ==
    [send |-> TRUE, delete |-> TRUE, reply_fails |-> 0, download |-> TRUE, scan |-> TRUE,
     upload1 |-> TRUE, upload2 |-> TRUE]

\* every outcome, for statements about a single handler run
AllEnvs ==
    {[send |-> s, delete |-> d, reply_fails |-> r, download |-> l, scan |-> g,
      upload1 |-> a, upload2 |-> b] :
        s \in BOOLEAN, d \in BOOLEAN, r \in 0..2, l \in BOOLEAN, g \in BOOLEAN,
        a \in BOOLEAN, b \in BOOLEAN}

\* the outcomes that matter to a handler that sends or deletes one message
OfferEnvs ==
    {[EnvOk EXCEPT !.send = s, !.delete = d, !.reply_fails = r] :
        s \in BOOLEAN, d \in BOOLEAN, r \in 0..1}

\* a command handler's reply is its last statement: a raising reply leaves the
\* same state, so the command actions draw the outcomes of the other calls
SendEnvs == {[EnvOk EXCEPT !.send = s] : s \in BOOLEAN}

DeleteEnvs == {[EnvOk EXCEPT !.delete = d] : d \in BOOLEAN}

\* a flow's last step replies before it clears the flow
StepEnvs ==
    {[e EXCEPT !.reply_fails = r] : e \in SendEnvs \cup DeleteEnvs, r \in 0..1}

\* handle_document: each call on its path may be the one that fails
DocumentEnvs ==
    {EnvOk,
     [EnvOk EXCEPT !.reply_fails = 1], [EnvOk EXCEPT !.reply_fails = 2],
     [EnvOk EXCEPT !.download = FALSE],
     [EnvOk EXCEPT !.scan = FALSE], [EnvOk EXCEPT !.scan = FALSE, !.reply_fails = 2],
     [EnvOk EXCEPT !.upload1 = FALSE],
     [EnvOk EXCEPT !.upload1 = FALSE, !.upload2 = FALSE],
     [EnvOk EXCEPT !.send = FALSE]}

AnnounceEnvChoices == {None}

InitWith(admins) ==
    /\ ADMIN_USER_IDS = admins
    /\ ANNOUNCE_CHAT_ID \in AnnounceEnvChoices
    /\ user_data = [u \in Users |-> NoSession]
    /\ offers = <<>>
    /\ settings = [announce_chat_id |-> None]
    /\ chat_log = <<>>
    /\ tasks = [u \in Users |-> IdleTask]

\* a deployment with no admin or with one
Init == \E admins \in {{}, {1}} : InitWith(admins)

\* the tables and the log are bounded, more tightly while two admins act
OfferCap == IF Cardinality(ADMIN_USER_IDS) > 1 THEN SharedMaxOffers ELSE MaxOffers

MessageCap == IF Cardinality(ADMIN_USER_IDS) > 1 THEN SharedMaxMessages ELSE MaxMessages

InBounds(c) == Len(c.offers) <= OfferCap /\ Len(c.chat_log) <= MessageCap

\* the handler's result becomes the state
Apply(c) ==
    /\ InBounds(c)
    /\ user_data' = SessionsAfter(user_data, c)
    /\ offers' = c.offers
    /\ settings' = c.settings
    /\ chat_log' = c.chat_log
    /\ UNCHANGED <<ADMIN_USER_IDS, ANNOUNCE_CHAT_ID, tasks>>

(***************************************************************************)
(* One action per handler main() registers.  The dispatcher hands every    *)
(* slash command to its CommandHandler, a document to handle_document and  *)
(* any other text to handle_text.                                          *)
(***************************************************************************)
CmdStart == \E u \in Users : Apply(show_menu(Ctx(u), EnvOk))

CmdHelp == \E u \in Users : Apply(help_command(Ctx(u), EnvOk))

CmdMenu == \E u \in Users : Apply(show_menu(Ctx(u), EnvOk))

CmdCancel == \E u \in Users : Apply(cancel(Ctx(u), EnvOk))

\* /stock and /list
CmdStock == \E u \in Users : Apply(stock(Ctx(u), EnvOk))

CmdAdd ==
    \E u \in Users, p \in AddPayloads, env \in SendEnvs :
        Apply(add_offer(Ctx(u), Command(CMD_ADD, p), env))

CmdSetQty ==
    \E u \in Users, p \in QtyPayloads, env \in DeleteEnvs :
        Apply(set_quantity(Ctx(u), Command(CMD_SETQTY, p), env))

CmdSetPrice ==
    \E u \in Users, p \in PricePayloads :
        Apply(set_price(Ctx(u), Command(CMD_SETPRICE, p), EnvOk))

\* /soldout and /remove
CmdSoldOut ==
    \E u \in Users, p \in IdTexts \cup {<<>>}, env \in DeleteEnvs :
        \E name \in {CMD_SOLDOUT, CMD_REMOVE} :
            Apply(sold_out(Ctx(u), Command(name, p), env))

CmdAnnounce ==
    \E u \in Users, p \in IdTexts \cup {<<>>}, env \in SendEnvs :
        Apply(announce(Ctx(u), Command(CMD_ANNOUNCE, p), env))

CmdSetAnnounce ==
    \E u \in Users, p \in ChatPayloads :
        Apply(set_announce(Ctx(u),
                  Command(CMD_SETANNOUNCE, p), EnvOk))

CmdUpload == \E u \in Users : Apply(upload_command(Ctx(u), EnvOk))

Document ==
    \E u \in Users, doc \in Documents, env \in DocumentEnvs :
        Apply(handle_document(Ctx(u), doc, env))

\* a menu label, or an answer to the pending step
Text ==
    \E u \in Users :
        \/ \E text \in MENU_LABELS : Apply(handle_text(Ctx(u), text, EnvOk))
        \/ \E text \in StepTexts(user_data[u].flow), env \in StepEnvs :
               Apply(handle_text(Ctx(u), text, env))

Next ==
    \/ CmdStart \/ CmdHelp \/ CmdMenu \/ CmdCancel \/ CmdStock
    \/ CmdAdd \/ CmdSetQty \/ CmdSetPrice \/ CmdSoldOut \/ CmdAnnounce
    \/ CmdSetAnnounce \/ CmdUpload \/ Document \/ Text

Spec == Init /\ [][Next]_vars

\* two admins share the bot
InitShared == InitWith({1, 2})

SpecShared == InitShared /\ [][Next]_vars

(***************************************************************************)
(* ADMIN_USER_IDS is a module-level set the handlers consult on every      *)
(* call.  SpecAuth lets a user be taken off it while sessions live on, the *)
(* case the check at the head of _handle_flow_text is written for.         *)
(***************************************************************************)
RevokeAdmin ==
    /\ \E u \in ADMIN_USER_IDS : ADMIN_USER_IDS' = ADMIN_USER_IDS \ {u}
    /\ UNCHANGED <<ANNOUNCE_CHAT_ID, user_data, offers, settings, chat_log, tasks>>

InitAuth == InitWith({1})

NextAuth == Next \/ RevokeAdmin

SpecAuth == InitAuth /\ [][NextAuth]_vars

(***************************************************************************)
(* The process can be stopped while a handler runs.  Each repository call  *)
(* commits on its own (offers_db opens a connection per call) and a posted *)
(* or deleted message stays posted or deleted, so what the handler did up  *)
(* to the stop remains; the sessions are kept in memory (main() builds the *)
(* application without persistence) and are gone at the restart.           *)
(***************************************************************************)
\* the commands of the lifecycle operations that touch repository and transport
LifecycleCommands ==
    {Command(CMD_ADD, AddPayload(NAME_WIDGET, <<"5">>, <<"2", ".", "5", "0">>))}
    \cup {Command(n, <<"1">>) : n \in {CMD_SOLDOUT, CMD_ANNOUNCE}}
    \cup {Command(n, <<"2">>) : n \in {CMD_SOLDOUT, CMD_ANNOUNCE}}

StoppedAt(u, k) == [Ctx(u) EXCEPT !.stop = k]

Stopped ==
    \E u \in Users, t \in LifecycleCommands, k \in 1..MaxStop :
        LET c == Dispatch(StoppedAt(u, k), TextMessage(t), EnvOk)
        IN  /\ c.raised = "Stopped"
            /\ InBounds(c)
            /\ user_data' = [v \in Users |-> NoSession]
            /\ offers' = c.offers
            /\ settings' = c.settings
            /\ chat_log' = c.chat_log
            /\ UNCHANGED <<ADMIN_USER_IDS, ANNOUNCE_CHAT_ID, tasks>>

InitStop == InitWith({1})

\* the commands that write offers, with the stops; the flows end in the same
\* controller calls and their sessions do not outlive a stop
NextStop ==
    \/ CmdAdd \/ CmdSetQty \/ CmdSetPrice \/ CmdSoldOut \/ CmdAnnounce \/ CmdStock
    \/ Stopped

SpecStop == InitStop /\ [][NextStop]_vars

(***************************************************************************)
(* The price texts an admin can type, as /add and /setprice hand them to   *)
(* normalize_price: two decimals or fewer, more than two, half-cent ties,  *)
(* values that round to zero at two decimals, zero, a negative value, a    *)
(* text that is no number, the special values and a value beyond the       *)
(* context precision.                                                      *)
(***************************************************************************)
DecimalTexts ==
    {<<"2", ".", "5", "0">>, <<"1", "0", ".", "0", "0">>, <<"9", ".", "9", "9", "9">>,
     <<"0", ".", "0", "1", "5">>, <<"0", ".", "0", "2", "5">>,
     <<"0", ".", "0", "0", "5", "1">>, <<"0", ".", "0", "0", "5">>,
     <<"0", ".", "0", "0", "1">>, <<".", "5">>,
     <<"0">>, <<"-", "1">>, <<"x">>,
     <<"N", "a", "N">>, <<"I", "n", "f", "i", "n", "i", "t", "y">>,
     <<"1", "e", "2", "8">>}

\* /add Widget | 5|<price>
PriceAdd ==
    \E u \in Users, d \in DecimalTexts, env \in SendEnvs :
        Apply(add_offer(Ctx(u), Command(CMD_ADD, AddPayload(NAME_WIDGET, <<"5">>, d)), env))

\* /setprice <id> <price>
PriceSet ==
    \E u \in Users, i \in {<<"1">>, <<"2">>}, d \in DecimalTexts :
        Apply(set_price(Ctx(u), Command(CMD_SETPRICE, Join(i, <<" ">>, d)), EnvOk))

InitPrice == InitWith({1})

NextPrice == PriceAdd \/ PriceSet

SpecPrice == InitPrice /\ [][NextPrice]_vars

(***************************************************************************)
(* The files an admin uploads: empty, one byte, and around the threshold   *)
(* up to the 250 MB of the sample.  The announcements of an upload go to   *)
(* the admin's chat or to another chat set with /setannounce.              *)
(***************************************************************************)
UploadSizes ==
    {0, 1, UPLOAD_THRESHOLD_MB * BYTES_PER_MB - 1, UPLOAD_THRESHOLD_MB * BYTES_PER_MB,
     UPLOAD_THRESHOLD_MB * BYTES_PER_MB + 1, 250 * BYTES_PER_MB}

UploadDocuments ==
    {[file |-> [SampleFile EXCEPT !.size_bytes = b], caption |-> None] : b \in UploadSizes}

UploadDocument ==
    \E u \in Users, doc \in UploadDocuments, env \in DocumentEnvs :
        Apply(handle_document(Ctx(u), doc, env))

\* /setannounce in the admin's chat, or with the id of another chat
UploadTarget ==
    \E u \in Users, p \in {<<>>, <<"2">>} :
        Apply(set_announce(Ctx(u), Command(CMD_SETANNOUNCE, p), EnvOk))

InitUpload == InitWith({1})

NextUpload == CmdUpload \/ CmdCancel \/ UploadTarget \/ UploadDocument \/ CmdAdd

SpecUpload == InitUpload /\ [][NextUpload]_vars

(***************************************************************************)
(* Properties.  A handler is a function of the context it starts in, so a  *)
(* statement about what handling a message does is an invariant: in every  *)
(* reachable state, for every sender, message and transport outcome, the   *)
(* handler's result relates to the state as stated.                        *)
(***************************************************************************)
Pending(u) == user_data[u].flow # NoFlow

\* the handler left the session, the tables and the log as they were
Untouched(c0, c) ==
    /\ c.flow = c0.flow /\ c.data = c0.data
    /\ c.offers = c0.offers /\ c.settings = c0.settings /\ c.chat_log = c0.chat_log

\* the calls a handler made to the repository
StoreEvents(c) ==
    {i \in 1..Len(c.trace) :
        c.trace[i].op \in {"add_offer", "get_offer", "list_offers", "set_active",
                           "update_quantity", "update_price", "attach_announcement",
                           "get_setting", "set_setting"}}

\* the calls a handler made to post or delete a message
TransportEvents(c) ==
    {i \in 1..Len(c.trace) : c.trace[i].op \in {"send_message", "delete_message"}}

\* the message was refused with the "finish or cancel the current step" reply
Rejected(c0, c) ==
    /\ Untouched(c0, c)
    /\ c.replies = <<R(STEP_PENDING)>>
    /\ StoreEvents(c) = {} /\ TransportEvents(c) = {}

\* transport outcomes for statements about one handler run
ReplyEnvs == {EnvOk, [EnvOk EXCEPT !.reply_fails = 1]}

FaultEnvs ==
    {EnvOk, [EnvOk EXCEPT !.send = FALSE, !.delete = FALSE],
     [EnvOk EXCEPT !.reply_fails = 1]}

GuardedLabels == MENU_LABELS \ {MENU_CANCEL, MENU_HELP, MENU_MENU}

ExemptCommands == {Command(n, <<>>) : n \in {CMD_CANCEL, CMD_HELP, CMD_MENU}}

StockCommands == {Command(n, <<>>) : n \in {CMD_STOCK, CMD_LIST}}

\* each admin command, once well formed and once malformed
AdminCommands ==
    {Command(CMD_ADD, AddPayload(NAME_WIDGET, <<"5">>, <<"2", ".", "5", "0">>)),
     Command(CMD_ADD, Join(NAME_WIDGET, <<"|">>, <<"5">>)),
     Command(CMD_SETQTY, <<"1", " ", "5">>), Command(CMD_SETQTY, <<"1", " ", "x">>),
     Command(CMD_SETPRICE, <<"1", " ", "2", ".", "5", "0">>),
     Command(CMD_SETPRICE, <<"1", " ", "x">>),
     Command(CMD_SOLDOUT, <<"1">>), Command(CMD_REMOVE, <<"x">>),
     Command(CMD_ANNOUNCE, <<"1">>), Command(CMD_ANNOUNCE, <<"x">>),
     Command(CMD_SETANNOUNCE, <<>>), Command(CMD_SETANNOUNCE, <<"x">>),
     Command(CMD_UPLOAD, <<>>)}

SampleMessages(u) ==
    {TextMessage(t) :
        t \in AdminCommands \cup StockCommands \cup {Command(CMD_CANCEL, <<>>)}
              \cup MENU_LABELS \cup StepTexts(user_data[u].flow)}
    \cup {DocumentMessage(d) : d \in Documents}

\* what a handler run did: the session it left, its replies, its calls
Behaviour(c) ==
    [flow |-> c.flow, data |-> c.data, replies |-> c.replies, trace |-> c.trace,
     raised |-> c.raised]

\* sessions another user may be in
SampleSessions ==
    {[flow |-> FLOW_ADD_PRICE,
      data |-> [EmptyData EXCEPT !.name = Some(NAME_WIDGET), !.quantity = Some(5)]],
     [flow |-> FLOW_SET_QTY_VALUE, data |-> [EmptyData EXCEPT !.offer_id = Some(1)]]}

TransportEnvs == {EnvOk, [EnvOk EXCEPT !.send = FALSE, !.delete = FALSE]}

\* C2 as stated: a message handled for user A leaves user B's step tag and
\* field bag unchanged, and B's next step or command behaves exactly as if
\* A's message had not been handled
C2_AsStated ==
    \A a \in Users, b \in Users :
        a # b =>
            \A m \in SampleMessages(a) :
                LET st == After(State, Dispatch(Ctx(a), m, EnvOk))
                IN  /\ st.user_data[b] = user_data[b]
                    /\ \A mb \in SampleMessages(b) :
                           Behaviour(Dispatch(CtxOf(st, b), mb, EnvOk))
                               = Behaviour(Dispatch(Ctx(b), mb, EnvOk))

\* C2: a message handled for user A leaves user B's step tag and field bag
\* unchanged, and what B's next step or command does never depends on A's
\* session: it is the same whatever session A is in (it does depend on the
\* offers, the setting and the posted messages, which the users share)
C2_SessionsIsolated ==
    \A a \in Users, b \in Users :
        a # b =>
            /\ \A m \in SampleMessages(a), env \in TransportEnvs :
                   After(State, Dispatch(Ctx(a), m, env)).user_data[b] = user_data[b]
            /\ \A mb \in SampleMessages(b) :
                   LET c == Dispatch(Ctx(b), mb, EnvOk)
                   IN  \A sa \in SampleSessions :
                           Dispatch(CtxOf([State EXCEPT !.user_data[a] = sa], b), mb, EnvOk)
                               = c

\* C2: A is at the price step of an add flow, B at the value step of a
\* quantity update; A's price creates the offer and ends A's flow, and B's
\* session is as it was
C2_Witness ==
    \E a \in Users, b \in Users :
        /\ user_data[a].flow = FLOW_ADD_PRICE
        /\ user_data[b].flow = FLOW_SET_QTY_VALUE
        /\ LET c == Dispatch(Ctx(a), TextMessage(<<"2", ".", "5", "0">>), EnvOk)
           IN  /\ c.flow = NoFlow
               /\ Len(c.offers) = Len(offers) + 1
               /\ After(State, c).user_data[b] = user_data[b]
               /\ After(State, c).user_data[a] # user_data[a]

(***************************************************************************)
(* C3: cancellation.                                                       *)
(***************************************************************************)
\* the ways to cancel: the command, bare or with trailing words, and the
\* menu label, bare or padded
CancelTexts ==
    {Command(CMD_CANCEL, <<>>), Command(CMD_CANCEL, <<"x">>), MENU_CANCEL,
     <<" ">> \o MENU_CANCEL \o <<" ">>}

\* the handler wrote nothing to the repository and posted or deleted nothing
NoEffect(c0, c) ==
    /\ c.offers = c0.offers /\ c.settings = c0.settings /\ c.chat_log = c0.chat_log
    /\ \A i \in StoreEvents(c) : c.trace[i].op \in {"get_offer", "list_offers", "get_setting"}
    /\ TransportEvents(c) = {}

\* C3: from every session state (any step of any flow, any collected
\* fields, admin or not), handling the /cancel command or the Cancel label
\* leaves the user with step tag none and an empty field bag and changes
\* nothing in the repository, whether or not the reply could be delivered
C3_CancelUnconditional ==
    \A u \in Users, t \in CancelTexts, env \in ReplyEnvs :
        LET c == Dispatch(Ctx(u), TextMessage(t), env)
        IN  /\ c.flow = NoFlow /\ c.data = EmptyData
            /\ After(State, c).user_data[u] = NoSession
            /\ NoEffect(Ctx(u), c)
            /\ StoreEvents(c) = {}

\* C3: a user who is no longer an admin is at the price step of an add flow
\* with a name and a quantity collected, offers are stored, and cancel ends
\* the flow
C3_Witness ==
    \E u \in Users :
        /\ ~_is_admin(u)
        /\ user_data[u].flow = FLOW_ADD_PRICE
        /\ user_data[u].data.name # None /\ user_data[u].data.quantity # None
        /\ offers # <<>>
        /\ LET c == Dispatch(Ctx(u), TextMessage(MENU_CANCEL), EnvOk)
           IN  /\ After(State, c).user_data[u] = NoSession
               /\ c.offers = offers
               /\ c.replies = <<R("Canceled. You're back at the main menu.")>>

(***************************************************************************)
(* C4: the last step of a flow.                                            *)
(***************************************************************************)
FinalSteps ==
    {FLOW_ADD_PRICE, FLOW_SET_QTY_VALUE, FLOW_SET_PRICE_VALUE, FLOW_SOLD_OUT_ID,
     FLOW_ANNOUNCE_ID}

\* the text passes the step's validation
ValidStepText(flow, t) ==
    CASE flow = FLOW_ADD_NAME -> Strip(t) # <<>>
      [] flow = FLOW_ADD_QTY -> parse_quantity(t).ok /\ parse_quantity(t).val > 0
      [] flow = FLOW_SET_QTY_VALUE -> parse_quantity(t).ok
      [] flow \in {FLOW_ADD_PRICE, FLOW_SET_PRICE_VALUE} -> normalize_price(t).status = "ok"
      [] flow \in {FLOW_SET_QTY_ID, FLOW_SET_PRICE_ID, FLOW_SOLD_OUT_ID, FLOW_ANNOUNCE_ID} ->
            _parse_offer_id(t).ok
      [] OTHER -> FALSE

\* the step, given valid text t, gets as far as its call of the controller:
\* the value steps and the sold-out step look the offer up first
ReachesController(u, t) ==
    LET flow == user_data[u].flow
    IN  /\ flow \in FinalSteps
        /\ _is_admin(u)
        /\ ValidStepText(flow, t)
        /\ flow \in {FLOW_SET_QTY_VALUE, FLOW_SET_PRICE_VALUE} =>
               OfferStore_get_offer(offers, DataInt(user_data[u].data.offer_id)) # None
        /\ flow = FLOW_SOLD_OUT_ID =>
               OfferStore_get_offer(offers, _parse_offer_id(t).val) # None

\* the handler posted an announcement
Announced(c) ==
    \E i \in TransportEvents(c) : c.trace[i].op = "send_message" /\ c.trace[i].ok

C4_WitnessSoldOut ==
    \E u \in Users :
        /\ user_data[u].flow = FLOW_SOLD_OUT_ID
        /\ offers # <<>> /\ Truthy(offers[1].announce_message_id)
        /\ ReachesController(u, <<"1">>)
        /\ LET c == Dispatch(Ctx(u), TextMessage(<<"1">>), [EnvOk EXCEPT !.delete = FALSE])
           IN  /\ TransportEvents(c) # {}
               /\ ~c.offers[1].active
               /\ c.flow = NoFlow

(***************************************************************************)
(* C5: a step refuses input that fails its validation.                     *)
(***************************************************************************)
ValidatingSteps ==
    {FLOW_ADD_NAME, FLOW_ADD_QTY, FLOW_ADD_PRICE, FLOW_SET_QTY_ID, FLOW_SET_QTY_VALUE,
     FLOW_SET_PRICE_ID, FLOW_SET_PRICE_VALUE, FLOW_SOLD_OUT_ID, FLOW_ANNOUNCE_ID}

\* the step answered and left everything as it was
Reprompted(c0, c) ==
    /\ Alive(c)
    /\ c.replies # <<>>
    /\ Untouched(c0, c)
    /\ NoEffect(c0, c)

\* C5: a validation failure in any flow step (empty name, quantity text that
\* is not a non-negative integer, price text that is not a positive decimal,
\* offer id text that is not an integer) produces a reply and leaves the
\* session as before: same step tag, same collected fields, no repository
\* change, no send or delete
C5_ValidationFailureReprompts ==
    \A u \in Users :
        _is_admin(u) /\ user_data[u].flow \in ValidatingSteps =>
            \A t \in StepTexts(user_data[u].flow) :
                ~ValidStepText(user_data[u].flow, t) =>
                    Reprompted(Ctx(u), Dispatch(Ctx(u), TextMessage(t), EnvOk))

\* C5, short of the price texts on which the decimal arithmetic signals: every
\* other failing text is answered and changes nothing, and on those the
\* handler ends with the signal, without a reply, the session as it was
C5_ExceptDecimalSignal ==
    \A u \in Users :
        _is_admin(u) /\ user_data[u].flow \in ValidatingSteps =>
            \A t \in StepTexts(user_data[u].flow) :
                ~ValidStepText(user_data[u].flow, t) =>
                    LET c == Dispatch(Ctx(u), TextMessage(t), EnvOk)
                    IN  IF /\ user_data[u].flow \in {FLOW_ADD_PRICE, FLOW_SET_PRICE_VALUE}
                           /\ normalize_price(t).status = "InvalidOperation"
                        THEN /\ c.raised = "InvalidOperation" /\ c.replies = <<>>
                             /\ Untouched(Ctx(u), c) /\ NoEffect(Ctx(u), c)
                        ELSE Reprompted(Ctx(u), c)

(***************************************************************************)
(* C6: authorization during a flow.                                        *)
(***************************************************************************)
\* the handler ended the flow and had no effect on repository or transport
Aborted(c0, c) ==
    /\ c.flow = NoFlow /\ c.data = EmptyData
    /\ NoEffect(c0, c)

C6_TextStepsAbort ==
    \A u \in Users :
        Pending(u) /\ ~_is_admin(u) =>
            /\ \A t \in StepTexts(user_data[u].flow), env \in ReplyEnvs :
                   Aborted(Ctx(u), Dispatch(Ctx(u), TextMessage(t), env))
            /\ \A d \in Documents, env \in ReplyEnvs :
                   LET c == Dispatch(Ctx(u), DocumentMessage(d), env)
                   IN  Untouched(Ctx(u), c) /\ NoEffect(Ctx(u), c)

(***************************************************************************)
(* C7: what a user who is not an admin can do.                             *)
(***************************************************************************)
PrivilegedCommands ==
    {CMD_ADD, CMD_SETQTY, CMD_SETPRICE, CMD_SOLDOUT, CMD_REMOVE, CMD_ANNOUNCE,
     CMD_SETANNOUNCE, CMD_UPLOAD}

PrivilegedLabels ==
    {MENU_ADD, MENU_SET_QTY, MENU_SET_PRICE, MENU_SOLD_OUT, MENU_ANNOUNCE,
     MENU_SET_ANNOUNCE, MENU_UPLOAD}

Privileged(m) ==
    \/ m.document # None
    \/ m.text # <<>> /\ Head(m.text) = "/" /\ CommandName(m.text) \in PrivilegedCommands
    \/ m.text \in PrivilegedLabels

Refusals ==
    {<<R("Admins are not configured. Set ADMIN_USER_IDS to enable admin commands.")>>,
     <<R("Not authorized. Ask the owner to add you as an admin.")>>}

\* C7: a user who is not an admin (everyone, when the allow-list is empty)
\* never causes an offer to be created or changed, a setting to be written,
\* a flow to start or an announcement to be sent or deleted, whatever the
\* message: privileged commands, labels and documents are refused, and only
\* stock, help, menu and cancel take effect, none of which writes
C7_NonAdminReadOnly ==
    \A u \in Users :
        ~_is_admin(u) =>
            \A m \in Messages, env \in TransportEnvs :
                LET c == Dispatch(Ctx(u), m, env)
                IN  /\ NoEffect(Ctx(u), c)
                    /\ c.flow = NoFlow /\ c.data = EmptyData
                    /\ Privileged(m) => c.replies \in Refusals /\ StoreEvents(c) = {}

\* C7: an admin has stored an offer with a live announcement; another user,
\* not an admin, is refused /soldout 1 and the "Add offer" label and is
\* answered /stock with the list
C7_Witness ==
    \E u \in Users :
        /\ ~_is_admin(u) /\ ADMIN_USER_IDS # {}
        /\ offers # <<>> /\ offers[1].active /\ Truthy(offers[1].announce_message_id)
        /\ LET c == Dispatch(Ctx(u), TextMessage(Command(CMD_SOLDOUT, <<"1">>)), EnvOk)
           IN  c.replies \in Refusals /\ c.offers = offers /\ c.chat_log = chat_log
        /\ LET c == Dispatch(Ctx(u), TextMessage(MENU_ADD), EnvOk)
           IN  c.replies \in Refusals /\ c.flow = NoFlow
        /\ LET c == Dispatch(Ctx(u), TextMessage(Command(CMD_STOCK, <<>>)), EnvOk)
           IN  c.replies = <<RA("Current stock:", _format_offers(OfferStore_list_offers(offers, TRUE)))>>

(***************************************************************************)
(* C8: the active flag follows the quantity.                               *)
(***************************************************************************)
\* C8: every stored offer is active exactly when its quantity is greater
\* than zero, after any sequence of add, set-quantity, set-price, sold-out
\* and re-announce operations
C8_ActiveIffInStock ==
    \A i \in 1..Len(offers) : offers[i].active <=> offers[i].quantity > 0

\* C8: offer 1 is sold out (quantity 0, inactive) and offer 2 is in stock;
\* /setqty 1 5 makes offer 1 active again with quantity 5
C8_Witness ==
    /\ Len(offers) = 2
    /\ ~offers[1].active /\ offers[1].quantity = 0
    /\ offers[2].active /\ offers[2].quantity > 0
    /\ \E u \in Users :
           LET c == Dispatch(Ctx(u), TextMessage(Command(CMD_SETQTY, <<"1", " ", "5">>)), EnvOk)
           IN  c.offers[1].active /\ c.offers[1].quantity = 5

(***************************************************************************)
(* C9, C10: creating an offer.                                             *)
(***************************************************************************)
\* the texts that create an offer from where user u stands: /add with a
\* well-formed payload, and a valid price at the price step of the add flow
CreateTexts(u) ==
    {Command(CMD_ADD, AddPayload(NAME_WIDGET, <<"5">>, p)) :
        p \in {<<"9", ".", "9", "9", "9">>, <<"2", ".", "5", "0">>}}
    \cup (IF user_data[u].flow = FLOW_ADD_PRICE
          THEN {t \in PriceTexts : ValidStepText(FLOW_ADD_PRICE, t)}
          ELSE {})

\* the chat announcements go to (the setting, else the sender's chat)
TargetChat(u) == _announcement_chat_id(Ctx(u)).val

\* C9: creating an offer is never rolled back: the offer is stored and
\* active whether the announcement could be sent or not, the stored rows
\* before it are as they were; the offer is bound to an announcement exactly
\* when the send succeeded, and then to the message just sent; when the send
\* failed the reply reports the offer as added and the announcement as failed
C9_CreateNeverRolledBack ==
    \A u \in Users :
        _is_admin(u) =>
            \A t \in CreateTexts(u), env \in OfferEnvs :
                LET c   == Dispatch(Ctx(u), TextMessage(t), env)
                    n   == Len(offers) + 1
                    mid == Len(chat_log) + 1
                IN  /\ Len(c.offers) = n
                    /\ SubSeq(c.offers, 1, Len(offers)) = offers
                    /\ c.offers[n].id = n /\ c.offers[n].active
                    /\ IF env.send
                       THEN /\ c.offers[n].announce_chat_id = Some(TargetChat(u))
                            /\ c.offers[n].announce_message_id = Some(mid)
                            /\ c.chat_log = Append(chat_log,
                                   [chat_id |-> TargetChat(u), offer_id |-> n, deleted |-> FALSE])
                       ELSE /\ c.offers[n].announce_chat_id = None
                            /\ c.offers[n].announce_message_id = None
                            /\ c.chat_log = chat_log
                            /\ c.replies = <<RA("Added offer #{}. Announcement failed: {}",
                                                <<IntToStr(n), SEND_ERROR>>)>>

\* C9: an admin is at the price step of the add flow with an offer already
\* stored; the price creates offer 2 although the send fails, unbound, and
\* the reply says so
C9_Witness ==
    \E u \in Users :
        /\ _is_admin(u) /\ user_data[u].flow = FLOW_ADD_PRICE /\ Len(offers) = 1
        /\ LET c == Dispatch(Ctx(u), TextMessage(<<"2", ".", "5", "0">>),
                             [EnvOk EXCEPT !.send = FALSE])
           IN  /\ Len(c.offers) = 2 /\ c.offers[2].active
               /\ c.offers[2].announce_message_id = None
               /\ c.replies = <<RA("Added offer #{}. Announcement failed: {}",
                                   <<<<"2">>, SEND_ERROR>>)>>
        /\ LET c == Dispatch(Ctx(u), TextMessage(<<"2", ".", "5", "0">>), EnvOk)
           IN  c.offers[2].announce_message_id = Some(Len(chat_log) + 1)

\* the announcements a handler tried to post
SendTexts(c) ==
    {c.trace[i].text : i \in {j \in TransportEvents(c) : c.trace[j].op = "send_message"}}

\* the name, quantity text and price text an offer is created from
CreateInput(u, t) ==
    IF Head(t) = "/"
    THEN LET parts == SplitOn(_command_text(t), "|")
         IN  [name |-> Strip(parts[1]), quantity |-> Strip(parts[2]), price |-> Strip(parts[3])]
    ELSE [name |-> Strip(user_data[u].data.name[1]),
          quantity |-> IntToStr(user_data[u].data.quantity[1]), price |-> t]

\* C10: an add, direct or through the flow, with name n, a quantity text
\* that parses to q and price text p stores an active offer with name n,
\* quantity q and price normalize_price(p), and the announcement is rendered
\* from the stored values: Widget, 5 and 9.999 give price "10" and a text
\* that contains "5 available at $10."
C10_StoredAsNormalized ==
    \A u \in Users :
        _is_admin(u) =>
            \A t \in CreateTexts(u), env \in TransportEnvs :
                LET c  == Dispatch(Ctx(u), TextMessage(t), env)
                    in == CreateInput(u, t)
                    o  == c.offers[Len(c.offers)]
                IN  /\ Len(c.offers) = Len(offers) + 1
                    /\ o.name = in.name
                    /\ o.quantity = parse_quantity(in.quantity).val
                    /\ o.price = normalize_price(in.price).val
                    /\ o.active
                    /\ SendTexts(c) = {_build_announcement(o)}
                    /\ \A a \in SendTexts(c) :
                           Contains(a, IntToStr(o.quantity) \o <<" ", "a", "v", "a", "i", "l", "a", "b", "l", "e", " ", "a", "t", " ", "$">> \o o.price \o <<".">>)
                    /\ (in.name = NAME_WIDGET /\ in.quantity = <<"5">>
                            /\ in.price = <<"9", ".", "9", "9", "9">>) =>
                           /\ o.price = <<"1", "0">>
                           /\ \A a \in SendTexts(c) :
                                  Contains(a, <<"5", " ", "a", "v", "a", "i", "l", "a", "b", "l", "e", " ", "a", "t", " ", "$", "1", "0", ".">>)

\* C10: an admin is at the price step of the add flow with the name Widget
\* and the quantity 5 collected; both the price 9.999 and the command
\* /add Widget | 5|9.999 store Widget, 5, "10" and announce it so
C10_Witness ==
    \E u \in Users :
        /\ _is_admin(u) /\ user_data[u].flow = FLOW_ADD_PRICE
        /\ user_data[u].data.name = Some(NAME_WIDGET) /\ user_data[u].data.quantity = Some(5)
        /\ \A t \in {<<"9", ".", "9", "9", "9">>,
                      Command(CMD_ADD, AddPayload(NAME_WIDGET, <<"5">>, <<"9", ".", "9", "9", "9">>))} :
               LET c == Dispatch(Ctx(u), TextMessage(t), EnvOk)
                   o == c.offers[Len(c.offers)]
               IN  /\ Len(c.offers) = Len(offers) + 1
                   /\ o.name = NAME_WIDGET /\ o.quantity = 5 /\ o.price = <<"1", "0">>
                   /\ \E a \in SendTexts(c) :
                          Contains(a, <<"5", " ", "a", "v", "a", "i", "l", "a", "b", "l", "e", " ", "a", "t", " ", "$", "1", "0", ".">>)

(***************************************************************************)
(* C11, C12: retiring an offer.                                            *)
(***************************************************************************)
\* the ids of the stored offers, as texts
StoredIdTexts == {IntToStr(i) : i \in 1..Len(offers)}

\* the texts that retire a stored offer from where user u stands, each with
\* the offer's id: /soldout, /remove, /setqty with 0, the id at the sold-out
\* step and 0 at the value step of a quantity update
RetireInputs(u) ==
    {[text |-> Command(n, IntToStr(i)), id |-> i] :
        n \in {CMD_SOLDOUT, CMD_REMOVE}, i \in 1..Len(offers)}
    \cup {[text |-> Command(CMD_SETQTY, Join(IntToStr(i), <<" ">>, <<"0">>)), id |-> i] :
            i \in 1..Len(offers)}
    \cup (IF user_data[u].flow = FLOW_SOLD_OUT_ID
          THEN {[text |-> IntToStr(i), id |-> i] : i \in 1..Len(offers)}
          ELSE {})
    \cup (IF /\ user_data[u].flow = FLOW_SET_QTY_VALUE
             /\ DataInt(user_data[u].data.offer_id) \in 1..Len(offers)
          THEN {[text |-> <<"0">>, id |-> DataInt(user_data[u].data.offer_id)]}
          ELSE {})

\* the offer is bound to an announcement
Bound(offer) == Truthy(offer.announce_chat_id) /\ Truthy(offer.announce_message_id)

DeleteAttempts(c) == {i \in TransportEvents(c) : c.trace[i].op = "delete_message"}

SendAttempts(c) == {i \in TransportEvents(c) : c.trace[i].op = "send_message"}

\* C11: retiring an existing offer (sold-out, or set-quantity with 0) always
\* ends with quantity 0 and the offer inactive, also when the delete fails;
\* it makes exactly one delete attempt, on the offer's bound chat and
\* message, when a binding exists, and none when no binding exists
C11_RetireAlwaysRetires ==
    \A u \in Users :
        _is_admin(u) =>
            \A r \in RetireInputs(u), env \in OfferEnvs :
                LET c == Dispatch(Ctx(u), TextMessage(r.text), env)
                    o == offers[r.id]
                IN  /\ c.offers[r.id].quantity = 0 /\ ~c.offers[r.id].active
                    /\ \A i \in 1..Len(offers) : i # r.id => c.offers[i] = offers[i]
                    /\ Len(c.offers) = Len(offers)
                    /\ IF Bound(o)
                       THEN /\ Cardinality(DeleteAttempts(c)) = 1
                            /\ \A i \in DeleteAttempts(c) :
                                   /\ c.trace[i].chat = o.announce_chat_id[1]
                                   /\ c.trace[i].mid = o.announce_message_id[1]
                       ELSE DeleteAttempts(c) = {}

\* C11: offer 1 is in stock and bound to a live announcement, offer 2 was
\* created while the send failed and has no binding; /soldout 1 with a
\* failing delete retires offer 1 after one attempt, /setqty 2 0 retires
\* offer 2 without an attempt
C11_Witness ==
    \E u \in Users :
        /\ _is_admin(u) /\ Len(offers) = 2
        /\ offers[1].active /\ Bound(offers[1]) /\ offers[2].active /\ ~Bound(offers[2])
        /\ LET c == Dispatch(Ctx(u), TextMessage(Command(CMD_SOLDOUT, <<"1">>)),
                             [EnvOk EXCEPT !.delete = FALSE])
           IN  /\ ~c.offers[1].active /\ c.offers[1].quantity = 0
               /\ Cardinality(DeleteAttempts(c)) = 1 /\ ~Deleted(c)
        /\ LET c == Dispatch(Ctx(u), TextMessage(Command(CMD_SETQTY, <<"2", " ", "0">>)), EnvOk)
           IN  ~c.offers[2].active /\ c.offers[2].quantity = 0 /\ DeleteAttempts(c) = {}

\* the reply to a retire that deleted nothing
PlainRetireReply(id) == <<RA("Marked #{} as sold out.", <<IntToStr(id)>>)>>

RemovedRetireReply(id) ==
    <<RA("Marked #{} as sold out and removed the announcement.", <<IntToStr(id)>>)>>

\* C12: the reply to a retire tells whether the announcement deletion
\* succeeded: it says the announcement was removed exactly when the delete
\* call succeeded, and a delete that was attempted and failed is reported as
\* a failure, in a reply that differs from the one given when no
\* announcement was bound
C12_DeleteOutcomeReported ==
    \A u \in Users :
        _is_admin(u) =>
            \A r \in RetireInputs(u), env \in DeleteEnvs :
                LET c == Dispatch(Ctx(u), TextMessage(r.text), env)
                IN  /\ c.replies = RemovedRetireReply(r.id) <=> Deleted(c)
                    /\ (DeleteAttempts(c) # {} /\ ~Deleted(c)) =>
                           c.replies # PlainRetireReply(r.id)

\* C12, the part the code keeps: the reply says the announcement was
\* removed exactly when the delete call succeeded; every other retire, with
\* a failed delete or with nothing bound, gets the same plain reply
C12_RemovedIffDeleted ==
    \A u \in Users :
        _is_admin(u) =>
            \A r \in RetireInputs(u), env \in DeleteEnvs :
                LET c == Dispatch(Ctx(u), TextMessage(r.text), env)
                IN  /\ c.replies = RemovedRetireReply(r.id) <=> Deleted(c)
                    /\ ~Deleted(c) => c.replies = PlainRetireReply(r.id)

(***************************************************************************)
(* C13: restocking.                                                        *)
(***************************************************************************)
\* the texts that set a positive quantity on a stored offer from where user
\* u stands: /setqty, and the quantity at the value step of the flow
RestockInputs(u) ==
    {[text |-> Command(CMD_SETQTY, Join(IntToStr(i), <<" ">>, <<"5">>)), id |-> i, q |-> 5] :
        i \in 1..Len(offers)}
    \cup {[text |-> Command(CMD_SETQTY, Join(IntToStr(i), <<" ">>, <<"+", "1">>)), id |-> i,
           q |-> 1] : i \in 1..Len(offers)}
    \cup (IF /\ user_data[u].flow = FLOW_SET_QTY_VALUE
             /\ DataInt(user_data[u].data.offer_id) \in 1..Len(offers)
          THEN {[text |-> <<"5">>, id |-> DataInt(user_data[u].data.offer_id), q |-> 5]}
          ELSE {})

\* C13: setting a quantity q > 0 on any existing offer, retired or not,
\* leaves quantity q and the offer active, sends no announcement and deletes
\* none, and leaves the offer's announcement binding, name and price, and
\* every other offer, exactly as they were
C13_RestockKeepsBinding ==
    \A u \in Users :
        _is_admin(u) =>
            \A r \in RestockInputs(u), env \in FaultEnvs :
                LET c == Dispatch(Ctx(u), TextMessage(r.text), env)
                IN  /\ c.offers = [offers EXCEPT ![r.id].quantity = r.q,
                                                 ![r.id].active = TRUE]
                    /\ c.offers[r.id].announce_chat_id = offers[r.id].announce_chat_id
                    /\ c.offers[r.id].announce_message_id = offers[r.id].announce_message_id
                    /\ TransportEvents(c) = {}
                    /\ c.chat_log = chat_log

\* C13: offer 1 is retired and still bound to its announcement, which was
\* deleted; /setqty 1 5 makes it active with quantity 5 and the same
\* binding, and nothing is sent
C13_Witness ==
    \E u \in Users :
        /\ _is_admin(u) /\ offers # <<>>
        /\ ~offers[1].active /\ offers[1].quantity = 0 /\ Bound(offers[1])
        /\ chat_log[offers[1].announce_message_id[1]].deleted
        /\ LET c == Dispatch(Ctx(u), TextMessage(Command(CMD_SETQTY, <<"1", " ", "5">>)), EnvOk)
           IN  /\ c.offers[1].active /\ c.offers[1].quantity = 5
               /\ c.offers[1].announce_message_id = offers[1].announce_message_id
               /\ SendAttempts(c) = {}
               /\ c.replies = <<RA("Updated #{} quantity to {}.", <<<<"1">>, <<"5">>>>)>>

(***************************************************************************)
(* C14: announcing a stored offer again.                                   *)
(***************************************************************************)
\* the texts that re-announce from where user u stands, each with the id
\* it names: /announce, and the id at the step of the re-announce flow; id 9
\* is the id of no stored offer
ReannounceInputs(u) ==
    {[text |-> Command(CMD_ANNOUNCE, IntToStr(i)), id |-> i] : i \in (1..Len(offers)) \cup {9}}
    \cup (IF user_data[u].flow = FLOW_ANNOUNCE_ID
          THEN {[text |-> IntToStr(i), id |-> i] : i \in (1..Len(offers)) \cup {9}}
          ELSE {})

\* C14: a re-announce publishes only when the offer exists and is active;
\* for a missing or inactive offer nothing is sent and the binding is
\* unchanged.  On a successful publish the binding is overwritten with the
\* handle of the new message and no delete is attempted on the message bound
\* before; on a failed publish the previous binding is kept
C14_ReannounceRebinds ==
    \A u \in Users :
        _is_admin(u) =>
            \A r \in ReannounceInputs(u), env \in OfferEnvs :
                LET c == Dispatch(Ctx(u), TextMessage(r.text), env)
                IN  /\ DeleteAttempts(c) = {}
                    /\ IF r.id \notin 1..Len(offers) \/ ~offers[r.id].active
                       THEN /\ SendAttempts(c) = {}
                            /\ c.offers = offers /\ c.chat_log = chat_log
                       ELSE /\ Cardinality(SendAttempts(c)) = 1
                            /\ IF env.send
                               THEN /\ c.offers =
                                          [offers EXCEPT
                                              ![r.id].announce_chat_id = Some(TargetChat(u)),
                                              ![r.id].announce_message_id =
                                                  Some(Len(chat_log) + 1)]
                                    /\ c.chat_log =
                                          Append(chat_log,
                                                 [chat_id |-> TargetChat(u), offer_id |-> r.id,
                                                  deleted |-> FALSE])
                               ELSE c.offers = offers /\ c.chat_log = chat_log

\* C14: offer 1 is active and bound to a live announcement, offer 2 is
\* retired; /announce 1 rebinds offer 1 to a new message and leaves the old
\* one in place, /announce 1 with a failing send keeps the binding, and
\* /announce 2 sends nothing
C14_Witness ==
    \E u \in Users :
        /\ _is_admin(u) /\ Len(offers) = 2
        /\ offers[1].active /\ Bound(offers[1]) /\ ~offers[2].active
        /\ ~chat_log[offers[1].announce_message_id[1]].deleted
        /\ LET c == Dispatch(Ctx(u), TextMessage(Command(CMD_ANNOUNCE, <<"1">>)), EnvOk)
           IN  /\ c.offers[1].announce_message_id = Some(Len(chat_log) + 1)
               /\ c.offers[1].announce_message_id # offers[1].announce_message_id
               /\ ~c.chat_log[offers[1].announce_message_id[1]].deleted
        /\ LET c == Dispatch(Ctx(u), TextMessage(Command(CMD_ANNOUNCE, <<"1">>)),
                             [EnvOk EXCEPT !.send = FALSE])
           IN  c.offers[1] = offers[1] /\ Cardinality(SendAttempts(c)) = 1
        /\ LET c == Dispatch(Ctx(u), TextMessage(Command(CMD_ANNOUNCE, <<"2">>)), EnvOk)
           IN  SendAttempts(c) = {} /\ c.offers = offers

(***************************************************************************)
(* C15: changing a price.                                                  *)
(***************************************************************************)
ValidPriceTexts == {t \in PriceTexts : normalize_price(t).status = "ok"}

\* the texts that set the price of a stored offer from where user u stands
SetPriceInputs(u) ==
    {[text |-> Command(CMD_SETPRICE, Join(IntToStr(i), <<" ">>, p)), id |-> i, price |-> p] :
        i \in 1..Len(offers), p \in ValidPriceTexts}
    \cup (IF /\ user_data[u].flow = FLOW_SET_PRICE_VALUE
             /\ DataInt(user_data[u].data.offer_id) \in 1..Len(offers)
          THEN {[text |-> p, id |-> DataInt(user_data[u].data.offer_id), price |-> p] :
                   p \in ValidPriceTexts}
          ELSE {})

\* C15: setting the price of an existing offer changes only that offer's
\* price: its quantity, active flag, name and announcement binding are
\* unchanged, every other offer is unchanged, and no announcement is sent,
\* edited or deleted
C15_SetPriceChangesPriceOnly ==
    \A u \in Users :
        _is_admin(u) =>
            \A r \in SetPriceInputs(u), env \in FaultEnvs :
                LET c == Dispatch(Ctx(u), TextMessage(r.text), env)
                IN  /\ c.offers = [offers EXCEPT ![r.id].price = normalize_price(r.price).val]
                    /\ TransportEvents(c) = {}
                    /\ c.chat_log = chat_log

\* C15: two offers are stored at another price, offer 1 bound to a live
\* announcement; /setprice 1 9.999 stores "10" on offer 1 alone and the
\* announcement stays as it is
C15_Witness ==
    \E u \in Users :
        /\ _is_admin(u) /\ Len(offers) = 2 /\ Bound(offers[1])
        /\ offers[1].price # <<"1", "0">> /\ offers[2].price # <<"1", "0">>
        /\ LET c == Dispatch(Ctx(u),
                             TextMessage(Command(CMD_SETPRICE, <<"1", " ", "9", ".", "9", "9", "9">>)),
                             EnvOk)
           IN  /\ c.offers[1].price = <<"1", "0">>
               /\ c.offers[1] = [offers[1] EXCEPT !.price = <<"1", "0">>]
               /\ c.offers[2] = offers[2]
               /\ c.chat_log = chat_log /\ TransportEvents(c) = {}

(***************************************************************************)
(* C16: the order of repository and transport effects.                     *)
(***************************************************************************)
\* the row without its announcement binding
RowOnly(offer) ==
    [id |-> offer.id, name |-> offer.name, quantity |-> offer.quantity,
     price |-> offer.price, active |-> offer.active]

RowsOnly(rows) == [i \in 1..Len(rows) |-> RowOnly(rows[i])]

\* the writes of a handler to the offers table
WriteEvents(c) ==
    {i \in StoreEvents(c) :
        c.trace[i].op \in {"add_offer", "set_active", "update_quantity", "update_price",
                           "attach_announcement"}}

\* C16 as stated, on states: no reachable state has a message published
\* for an offer while the repository lacks the matching mutation, the
\* binding included: every message in the log belongs to a stored offer
\* that is bound to that message or to one published after it
C16_AsStated ==
    \A i \in 1..Len(chat_log) :
        chat_log[i].offer_id # 0 =>
            /\ chat_log[i].offer_id \in 1..Len(offers)
            /\ Bound(offers[chat_log[i].offer_id])
            /\ offers[chat_log[i].offer_id].announce_message_id[1] >= i

\* C16: in create, retire and re-announce the writes to the offer's row
\* (the insert; quantity and active flag) are done before the transport
\* call, so at whatever call the process is stopped, a message published or
\* deleted finds the row as the whole operation leaves it.  The binding is
\* written after the publish, whose message handle it records: a stop right
\* after the publish leaves the message posted and the binding as it was
\* before (none for a new offer), and only such a stop does
C16_RowBeforeTransport ==
    /\ \A i \in 1..Len(chat_log) :
           chat_log[i].offer_id # 0 => chat_log[i].offer_id \in 1..Len(offers)
    /\ \A u \in Users :
           _is_admin(u) =>
               \A t \in LifecycleCommands, k \in 0..MaxStop :
                   LET full == Dispatch(Ctx(u), TextMessage(t), EnvOk)
                       c    == Dispatch(StoppedAt(u, k), TextMessage(t), EnvOk)
                   IN  /\ \A i \in WriteEvents(full), j \in TransportEvents(full) :
                              i < j <=> full.trace[i].op # "attach_announcement"
                       /\ c.chat_log # chat_log =>
                              /\ RowsOnly(c.offers) = RowsOnly(full.offers)
                              /\ \/ c.offers = full.offers
                                 \/ /\ LastEv(c).op = "send_message" /\ c.raised = "Stopped"
                                    /\ \A i \in 1..Len(offers) : c.offers[i] = offers[i]
                                    /\ \A i \in 1..Len(c.offers) :
                                           i > Len(offers) => ~Bound(c.offers[i])

\* C16: a stop has left offer 1 stored, active and unbound although its
\* announcement is posted; a /soldout 1 stopped right after its delete
\* attempt would leave the offer retired
C16_Witness ==
    /\ offers # <<>> /\ offers[1].active /\ ~Bound(offers[1])
    /\ chat_log # <<>> /\ chat_log[1].offer_id = 1 /\ ~chat_log[1].deleted
    /\ \E u \in Users :
           /\ _is_admin(u)
           /\ LET c == Dispatch(StoppedAt(u, 3), TextMessage(Command(CMD_ANNOUNCE, <<"1">>)), EnvOk)
              IN  /\ c.raised = "Stopped" /\ Len(c.chat_log) = Len(chat_log) + 1
                  /\ ~Bound(c.offers[1])

(***************************************************************************)
(* C17, C18: the rows of the offers table.                                 *)
(***************************************************************************)
\* the announcement columns of the row are both NULL or both set
Paired(offer) == (offer.announce_chat_id = None) <=> (offer.announce_message_id = None)

\* C17: in every reachable state of the store each offer has its
\* announce_chat_id and its announce_message_id both present or both absent,
\* whatever the transport did; the row add_offer inserts into the store has
\* both absent, and attach_announcement sets both
C17_BindingPaired ==
    /\ \A i \in 1..Len(offers) : Paired(offers[i])
    /\ LET rows == OfferStore_add_offer(offers, NAME_WIDGET, 5, <<"2", ".", "5">>)
           n    == Len(offers) + 1
       IN  /\ rows[n].announce_chat_id = None /\ rows[n].announce_message_id = None
           /\ \A i \in 1..n :
                  LET o == OfferStore_attach_announcement(rows, i, ChatOf(1), Len(chat_log) + 1)[i]
                  IN  o.announce_chat_id # None /\ o.announce_message_id # None
    /\ \A u \in Users :
           \A t \in CreateTexts(u), env \in OfferEnvs :
               LET c == Dispatch(Ctx(u), TextMessage(t), env)
               IN  \A i \in 1..Len(c.offers) :
                       /\ Paired(c.offers[i])
                       /\ (i > Len(offers) /\ ~env.send) => c.offers[i].announce_chat_id = None

\* C17: the store holds an offer with both columns set and one with both
\* absent (its announcement could not be sent)
C17_Witness ==
    /\ Len(offers) = 2
    /\ \E i, j \in 1..2 :
           /\ offers[i].announce_chat_id # None /\ offers[i].announce_message_id # None
           /\ offers[j].announce_chat_id = None /\ offers[j].announce_message_id = None

\* the row is the offer it was: same id, same name, same creation time
SameOffer(row, offer) ==
    row.id = offer.id /\ row.name = offer.name /\ row.created_at = offer.created_at

\* C18: the ids of the stored offers are unique and strictly increasing in
\* creation order; no message handled for any user, whatever the transport
\* does, removes an offer: get_offer still returns every offer stored before
\* it, and every offer it creates has an id greater than every id assigned
\* before
C18_IdsIncreaseNeverRemoved ==
    /\ \A i, j \in 1..Len(offers) :
           i < j => offers[i].id < offers[j].id /\ offers[i].created_at < offers[j].created_at
    /\ \A u \in Users :
           \A m \in SampleMessages(u), env \in TransportEnvs :
               LET c == Dispatch(Ctx(u), m, env)
               IN  /\ Len(c.offers) >= Len(offers)
                   /\ \A i \in 1..Len(offers) :
                          LET got == OfferStore_get_offer(c.offers, offers[i].id)
                          IN  got # None /\ SameOffer(got[1], offers[i])
                   /\ \A j \in (Len(offers) + 1)..Len(c.offers), i \in 1..Len(offers) :
                          c.offers[j].id > offers[i].id

\* C18: offer 1 is stored and retired; an admin's /add creates offer 2,
\* whose id is greater, and get_offer(1) still returns offer 1
C18_Witness ==
    /\ Len(offers) = 1 /\ ~offers[1].active
    /\ \E u \in Users :
           LET c == Dispatch(Ctx(u), TextMessage(Command(CMD_ADD,
                        AddPayload(NAME_WIDGET, <<"5">>, <<"2", ".", "5", "0">>))), EnvOk)
           IN  /\ Len(c.offers) = 2 /\ c.offers[2].id > offers[1].id
               /\ OfferStore_get_offer(c.offers, 1) = Some(offers[1])

(***************************************************************************)
(* C19, C20: normalize_price.                                              *)
(***************************************************************************)
\* the text is a finite decimal with value > 0
IsPositiveDecimal(t) ==
    LET Positive(dec) == dec.kind = "num" /\ ~dec.neg /\ dec.coeff > 0
    IN  Positive(PyDecimal(t))

PositiveDecimals == {d \in DecimalTexts : IsPositiveDecimal(d)}

\* normalize_price maps the text to itself
Canonical(t) == normalize_price(t) = [status |-> "ok", val |-> t]

\* C19: normalize_price is idempotent on every valid input: for every
\* decimal text d with value > 0, also below 0.005 or with more than two
\* fractional digits, normalize_price(d) succeeds and normalize_price of the
\* result succeeds and equals it; so every price the handlers have stored is
\* mapped to itself
C19_NormalizeIdempotent ==
    /\ \A d \in PositiveDecimals :
           LET r == normalize_price(d)
           IN  r.status = "ok" /\ normalize_price(r.val) = r
    /\ \A i \in 1..Len(offers) : Canonical(offers[i].price)

\* normalize_price is idempotent wherever it returns something other than
\* "0": on every text of a value above 0.005 within the context precision
C19_IdempotentAboveHalfCent ==
    /\ \A d \in DecimalTexts :
           LET r == normalize_price(d)
           IN  (r.status = "ok" /\ r.val # <<"0">>) => normalize_price(r.val) = r
    /\ \A i \in 1..Len(offers) : offers[i].price # <<"0">> => Canonical(offers[i].price)

\* an offer is stored at price "0", which normalize_price refuses
C19_StoredZero ==
    \E i \in 1..Len(offers) :
        offers[i].price = <<"0">> /\ normalize_price(offers[i].price).status = "ValueError"

\* the commands that hand the price text d to normalize_price
PriceCommands(d) ==
    {Command(CMD_ADD, AddPayload(NAME_WIDGET, <<"5">>, d)),
     Command(CMD_SETPRICE, Join(<<"1">>, <<" ">>, d))}

\* C20: for every text normalize_price either fails with the validation
\* error the handlers catch (ValueError) or returns a text whose value is
\* > 0; hence every stored price is > 0, and for no input, one that rounds
\* to zero at two decimals or a special decimal included, does a command
\* store the price 0 or end with an error other than the validation error
C20_ValidationErrorOrPositive ==
    /\ \A d \in DecimalTexts :
           LET r == normalize_price(d)
           IN  r.status = "ValueError" \/ (r.status = "ok" /\ IsPositiveDecimal(r.val))
    /\ \A i \in 1..Len(offers) : IsPositiveDecimal(offers[i].price)
    /\ \A u \in Users :
           _is_admin(u) =>
               \A d \in DecimalTexts :
                   \A t \in PriceCommands(d) :
                       LET c == Dispatch(Ctx(u), TextMessage(t), EnvOk)
                       IN  /\ c.raised = ""
                           /\ \A i \in 1..Len(c.offers) : IsPositiveDecimal(c.offers[i].price)

\* the texts normalize_price answers with a decimal signal that is no
\* ValueError: the special values and a value beyond the context precision
SignalTexts ==
    {<<"N", "a", "N">>, <<"I", "n", "f", "i", "n", "i", "t", "y">>, <<"1", "e", "2", "8">>}

\* the texts of a value d with 0 < d <= 0.005
RoundToZeroTexts ==
    {<<"0", ".", "0", "0", "5">>, <<"0", ".", "0", "0", "1">>}

\* on every other text normalize_price fails with ValueError or returns the
\* text of a value > 0, and the commands store that text or refuse the input
\* with a reply; the two exceptions are as described: a value that rounds to
\* zero is stored as "0", and a decimal signal ends the handler with no reply
\* and nothing stored
C20_ExceptRoundedZeroAndSignals ==
    /\ \A d \in DecimalTexts :
           LET r == normalize_price(d)
           IN  /\ r.status = "InvalidOperation" <=> d \in SignalTexts
               /\ (r.status = "ok" /\ r.val = <<"0">>) <=> d \in RoundToZeroTexts
               /\ d \notin SignalTexts \cup RoundToZeroTexts =>
                      r.status = "ValueError" \/ (r.status = "ok" /\ IsPositiveDecimal(r.val))
    /\ \A i \in 1..Len(offers) :
           offers[i].price # <<"0">> => IsPositiveDecimal(offers[i].price)
    /\ \A u \in Users :
           _is_admin(u) =>
               \A d \in DecimalTexts :
                   \A t \in PriceCommands(d) :
                       LET c == Dispatch(Ctx(u), TextMessage(t), EnvOk)
                       IN  /\ c.raised = (IF d \in SignalTexts THEN "InvalidOperation" ELSE "")
                           /\ d \in SignalTexts => c.offers = offers /\ c.replies = <<>>
                           /\ normalize_price(d).status = "ValueError" =>
                                  c.offers = offers /\ Len(c.replies) = 1

\* an admin's /setprice 1 0.001 stores the price "0" on offer 1, and the
\* admin's /setprice 1 NaN ends with decimal.InvalidOperation
C20_ZeroStoredAndSignalRaised ==
    \E u \in Users :
        /\ _is_admin(u) /\ Len(offers) >= 1 /\ offers[1].price # <<"0">>
        /\ Dispatch(Ctx(u), TextMessage(Command(CMD_SETPRICE,
               <<"1", " ", "0", ".", "0", "0", "1">>)), EnvOk).offers[1].price = <<"0">>
        /\ Dispatch(Ctx(u), TextMessage(Command(CMD_SETPRICE,
               <<"1", " ", "N", "a", "N">>)), EnvOk).raised = "InvalidOperation"

(***************************************************************************)
(* C21, C22, C23: uploading a file.                                        *)
(***************************************************************************)
\* the hosts a handler's upload attempts went to, in order
UploadCalls(c) ==
    LET calls == {i \in 1..Len(c.trace) : c.trace[i].op = "upload_fn"}
    IN  {c.trace[i].text : i \in calls}

\* what the two attempts of an upload may do
UploadEnvs == {[EnvOk EXCEPT !.upload1 = a, !.upload2 = b] : a \in BOOLEAN, b \in BOOLEAN}

\* the host for a file of this size under this threshold
HostFor(size_bytes, threshold_mb) ==
    IF size_bytes <= threshold_mb * BYTES_PER_MB THEN HOST_CATBOX ELSE HOST_GOFILE

\* the same files sent with a caption
CaptionedDocuments ==
    {[d EXCEPT !.caption = Some(<<"h", "e", "a", "d", "e", "r", ":", " ", "X">>)] :
        d \in UploadDocuments}

\* C21: upload routing depends only on the file's size against the
\* threshold: a file of size at or below the threshold goes to Catbox only,
\* a file above it to Gofile only, whatever the attempts do and whatever
\* the caption is; with the threshold of 200 MB a 250 MB file goes to Gofile
\* and Catbox is never called for it
C21_RoutedBySize ==
    /\ \A b \in UploadSizes, threshold_mb \in {1, UPLOAD_THRESHOLD_MB}, env \in UploadEnvs :
           LET up == upload(b, threshold_mb, env)
           IN  /\ up.host = HostFor(b, threshold_mb)
               /\ \A i \in 1..Len(up.attempts) : up.attempts[i] = up.host
    /\ upload(250 * BYTES_PER_MB, 200, EnvOk).host = HOST_GOFILE
    /\ \A u \in Users :
           \A d \in UploadDocuments \cup CaptionedDocuments, env \in DocumentEnvs :
               LET c == Dispatch(Ctx(u), DocumentMessage(d), env)
               IN  /\ UploadCalls(c) \subseteq {HostFor(d.file.size_bytes, UPLOAD_THRESHOLD_MB)}
                   /\ d.file.size_bytes = 250 * BYTES_PER_MB => HOST_CATBOX \notin UploadCalls(c)

\* C21: an admin waits for the file; a 250 MB document is uploaded to
\* Gofile and a document of exactly 200 MB to Catbox
C21_Witness ==
    \E u \in Users :
        /\ _is_admin(u) /\ user_data[u].flow = FLOW_UPLOAD_WAIT_FILE
        /\ \E d \in UploadDocuments :
               /\ d.file.size_bytes = 250 * BYTES_PER_MB
               /\ UploadCalls(Dispatch(Ctx(u), DocumentMessage(d), EnvOk)) = {HOST_GOFILE}
        /\ \E d \in UploadDocuments :
               /\ d.file.size_bytes = UPLOAD_THRESHOLD_MB * BYTES_PER_MB
               /\ UploadCalls(Dispatch(Ctx(u), DocumentMessage(d), EnvOk)) = {HOST_CATBOX}

\* the upload attempts of a handler, as positions of its trace
UploadAttempts(c) == {i \in 1..Len(c.trace) : c.trace[i].op = "upload_fn"}

\* C22: an upload calls the selected host at most twice: once when the
\* first attempt succeeds, exactly twice when it fails; the result is a
\* success with the URL of the first successful attempt, or a failure with
\* the error of the second attempt; the other host is never tried
C22_OneRetryThenReport ==
    /\ \A host \in {HOST_CATBOX, HOST_GOFILE}, env \in UploadEnvs :
           LET up == _upload_with_retry(host, env)
           IN  /\ Len(up.attempts) = (IF env.upload1 THEN 1 ELSE 2)
               /\ \A i \in 1..Len(up.attempts) : up.attempts[i] = host
               /\ up.host = host
               /\ up.success = (env.upload1 \/ env.upload2)
               /\ env.upload1 => up.url = UploadUrl(1) /\ up.error = None
               /\ (~env.upload1 /\ env.upload2) => up.url = UploadUrl(2) /\ up.error = None
               /\ (~env.upload1 /\ ~env.upload2) =>
                      /\ up.error = Some(UploadError(2))
                      /\ up.url = UploadFailed(UploadError(2))
    /\ \A u \in Users :
           \A d \in UploadDocuments, env \in DocumentEnvs :
               LET c == Dispatch(Ctx(u), DocumentMessage(d), env)
                   n == Cardinality(UploadAttempts(c))
               IN  /\ n <= 2
                   /\ n > 0 => n = (IF env.upload1 THEN 1 ELSE 2)
                   /\ \A i \in UploadAttempts(c) :
                          /\ c.trace[i].text = HostFor(d.file.size_bytes, UPLOAD_THRESHOLD_MB)
                          /\ c.trace[i].ok =>
                                 \A j \in UploadAttempts(c) : j <= i /\ (j < i => ~c.trace[j].ok)
                   /\ \A a \in SendTexts(c) :
                          Contains(a, IF env.upload1 THEN UploadUrl(1)
                                      ELSE IF env.upload2 THEN UploadUrl(2)
                                      ELSE UploadFailed(UploadError(2)))

\* C22: an admin waits for the file and the first attempt fails: the host is
\* called twice; when the retry succeeds the summary carries its URL, when
\* it fails too the summary carries the second error
C22_Witness ==
    \E u \in Users, d \in UploadDocuments :
        /\ _is_admin(u) /\ user_data[u].flow = FLOW_UPLOAD_WAIT_FILE
        /\ LET c == Dispatch(Ctx(u), DocumentMessage(d), [EnvOk EXCEPT !.upload1 = FALSE])
           IN  /\ Cardinality(UploadAttempts(c)) = 2
               /\ \E a \in SendTexts(c) : Contains(a, UploadUrl(2))
        /\ LET c == Dispatch(Ctx(u), DocumentMessage(d),
                             [EnvOk EXCEPT !.upload1 = FALSE, !.upload2 = FALSE])
           IN  /\ Cardinality(UploadAttempts(c)) = 2
               /\ \E a \in SendTexts(c) : Contains(a, UploadFailed(UploadError(2)))

\* the line of the summary that names the host, and its success line
HostLine(host, url) == <<"\n">> \o host \o <<":", " ">> \o url \o <<"\n">>

SuccessLine(flag) ==
    <<"\n", "S", "u", "c", "c", "e", "s", "s", ":", " ">> \o flag \o <<"\n">>

\* C23: when both attempts of an upload fail the operation is not aborted:
\* the summary is still built and posted to the announcement chat, its host
\* line carries the failure text in place of a URL, its success flag is 0/1
\* (and 1/1 exactly when the upload succeeded), and the upload flow's
\* session is cleared
C23_FailedUploadStillAnnounced ==
    \A u \in Users :
        (_is_admin(u) /\ user_data[u].flow \in {NoFlow, FLOW_UPLOAD_WAIT_FILE}) =>
            \A d \in UploadDocuments, env \in UploadEnvs :
                LET c    == Dispatch(Ctx(u), DocumentMessage(d), env)
                    host == HostFor(d.file.size_bytes, UPLOAD_THRESHOLD_MB)
                    ok   == env.upload1 \/ env.upload2
                IN  /\ c.raised = ""
                    /\ c.chat_log = Append(chat_log, [chat_id |-> TargetChat(u), offer_id |-> 0,
                                                      deleted |-> FALSE])
                    /\ Cardinality(SendTexts(c)) = 1
                    /\ \A a \in SendTexts(c) :
                           /\ Contains(a, SuccessLine(<<"1", "/", "1">>)) <=> ok
                           /\ Contains(a, SuccessLine(<<"0", "/", "1">>)) <=> ~ok
                           /\ ~ok => Contains(a, HostLine(host, UploadFailed(UploadError(2))))
                           /\ ok => ~Contains(a, <<"U", "p", "l", "o", "a", "d", " ", "f", "a", "i", "l", "e", "d">>)
                    /\ c.flow = NoFlow /\ c.data = EmptyData
                    /\ c.offers = offers

\* C23: an admin waits for the file while the announcements go to another
\* chat; both attempts fail, and the summary is posted there with the
\* failure text and 0/1, and the session is cleared
C23_Witness ==
    \E u \in Users, d \in UploadDocuments :
        /\ _is_admin(u) /\ user_data[u].flow = FLOW_UPLOAD_WAIT_FILE
        /\ TargetChat(u) # ChatOf(u)
        /\ LET c == Dispatch(Ctx(u), DocumentMessage(d),
                             [EnvOk EXCEPT !.upload1 = FALSE, !.upload2 = FALSE])
           IN  /\ Len(c.chat_log) = Len(chat_log) + 1
               /\ c.chat_log[Len(c.chat_log)].chat_id = TargetChat(u)
               /\ \E a \in SendTexts(c) :
                      /\ Contains(a, UploadFailed(UploadError(2)))
                      /\ Contains(a, SuccessLine(<<"0", "/", "1">>))
               /\ c.flow = NoFlow

(***************************************************************************)
(* C24: a direct command while a flow is pending.                          *)
(***************************************************************************)
\* the context of user u with no flow pending
FreshCtx(u) == CtxOf([State EXCEPT !.user_data[u] = NoSession], u)

\* C24: when an admin with a pending flow sends a direct privileged command
\* (add, setqty, setprice, soldout/remove, announce, setannounce, upload),
\* well formed or not, the pending step and its collected fields are
\* discarded before the command runs: the command does what it does with no
\* flow pending, and afterwards the session is no-flow, or a fresh
\* await-file flow after upload, whatever the transport does
C24_CommandDiscardsFlow ==
    \A u \in Users :
        (_is_admin(u) /\ Pending(u)) =>
            \A t \in AdminCommands, env \in FaultEnvs :
                LET c     == Dispatch(Ctx(u), TextMessage(t), env)
                    fresh == Dispatch(FreshCtx(u), TextMessage(t), env)
                IN  /\ c.flow = (IF CommandName(t) = CMD_UPLOAD THEN FLOW_UPLOAD_WAIT_FILE
                                 ELSE NoFlow)
                    /\ c.data = EmptyData
                    /\ c = fresh

\* C24: an admin is at the price step of the add flow with a name and a
\* quantity collected; /setqty 1 x is refused and /add with two fields too,
\* and both leave no flow; /upload leaves the await-file flow with no fields
C24_Witness ==
    \E u \in Users :
        /\ _is_admin(u) /\ user_data[u].flow = FLOW_ADD_PRICE
        /\ user_data[u].data.name # None /\ user_data[u].data.quantity # None
        /\ \A t \in {Command(CMD_SETQTY, <<"1", " ", "x">>),
                      Command(CMD_ADD, Join(NAME_WIDGET, <<"|">>, <<"5">>))} :
               LET c == Dispatch(Ctx(u), TextMessage(t), EnvOk)
               IN  c.flow = NoFlow /\ c.data = EmptyData /\ c.offers = offers
        /\ LET c == Dispatch(Ctx(u), TextMessage(Command(CMD_UPLOAD, <<>>)), EnvOk)
           IN  c.flow = FLOW_UPLOAD_WAIT_FILE /\ c.data = EmptyData

(***************************************************************************)
(* C25: a direct command against the guided flow with the same values.     *)
(***************************************************************************)
\* the sends and deletes of a handler, in order
TransportCalls(c) ==
    LET IsTransport(e) == e.op \in {"send_message", "delete_message"}
    IN  SelectSeq(c.trace, IsTransport)

\* the state with no flow pending for user u
FreshState(u) == [State EXCEPT !.user_data[u] = NoSession]

\* user u sends the texts one after the other, each handled to its end:
\* the state left and the transport calls made
RECURSIVE Feed(_, _, _, _)
Feed(run, u, texts, env) ==
    IF texts = <<>> THEN run
    ELSE LET Next1(c) == [st |-> After(run.st, c), calls |-> run.calls \o TransportCalls(c)]
         IN  Feed(Next1(Dispatch(CtxOf(run.st, u), TextMessage(Head(texts)), env)),
                  u, Tail(texts), env)

\* the repository and the transport calls a run ends with
Outcome(run) ==
    [offers |-> run.st.offers, chat_log |-> run.st.chat_log, calls |-> run.calls]

\* the menu label and then the values, against the command with the values
ViaFlow(u, label, values, env) ==
    Outcome(Feed([st |-> FreshState(u), calls |-> <<>>], u, <<label>> \o values, env))

ViaCommand(u, text, env) ==
    Outcome(Feed([st |-> FreshState(u), calls |-> <<>>], u, <<text>>, env))

\* names: a plain one, a blank one, one with the command's separator in it,
\* one that is a menu label
NAME_WITH_BAR == <<"A", "|", "B">>

FlowNames == {NAME_WIDGET, <<" ">>, NAME_WITH_BAR, MENU_STOCK}

FlowQtys == {<<"5">>, <<"0">>, <<"x">>}

FlowPrices == {<<"2", ".", "5", "0">>, <<"0">>, <<"N", "a", "N">>}

FlowIds == {<<"1">>, <<"2">>, <<"9">>, <<"x">>}

\* each direct command with its values, and the flow's label
PairedRuns(names) ==
    {[text |-> Command(CMD_ADD, Join(Join(n, <<"|">>, q), <<"|">>, p)),
      label |-> MENU_ADD, values |-> <<n, q, p>>] :
        n \in names, q \in FlowQtys, p \in FlowPrices}
    \cup {[text |-> Command(CMD_SETQTY, Join(i, <<" ">>, q)),
           label |-> MENU_SET_QTY, values |-> <<i, q>>] : i \in FlowIds, q \in FlowQtys}
    \cup {[text |-> Command(CMD_SETPRICE, Join(i, <<" ">>, p)),
           label |-> MENU_SET_PRICE, values |-> <<i, p>>] : i \in FlowIds, p \in FlowPrices}
    \cup {[text |-> Command(CMD_SOLDOUT, i), label |-> MENU_SOLD_OUT, values |-> <<i>>] :
            i \in FlowIds}
    \cup {[text |-> Command(CMD_ANNOUNCE, i), label |-> MENU_ANNOUNCE, values |-> <<i>>] :
            i \in FlowIds}

\* from a state with no flow pending, the command and the flow end with the
\* same repository and the same sends and deletes
EquivalentOn(names) ==
    (\A v \in Users : ~Pending(v)) =>
        \A u \in Users :
            _is_admin(u) =>
                \A r \in PairedRuns(names), env \in TransportEnvs :
                    ViaCommand(u, r.text, env) = ViaFlow(u, r.label, r.values, env)

GivenBothWays(name) == ~Contains(name, <<"|">>) /\ Strip(name) \notin MENU_LABELS

EntrySteps ==
    {FLOW_ADD_NAME, FLOW_SET_QTY_ID, FLOW_SET_PRICE_ID, FLOW_SOLD_OUT_ID, FLOW_ANNOUNCE_ID,
     FLOW_UPLOAD_WAIT_FILE}

NextStep(flow) ==
    CASE flow = FLOW_ADD_NAME -> FLOW_ADD_QTY
      [] flow = FLOW_ADD_QTY -> FLOW_ADD_PRICE
      [] flow = FLOW_SET_QTY_ID -> FLOW_SET_QTY_VALUE
      [] flow = FLOW_SET_PRICE_ID -> FLOW_SET_PRICE_VALUE
      [] OTHER -> NoFlow

\* the await-id step a value step falls back to
IdStepOf(flow) ==
    CASE flow = FLOW_SET_QTY_VALUE -> FLOW_SET_QTY_ID
      [] flow = FLOW_SET_PRICE_VALUE -> FLOW_SET_PRICE_ID
      [] OTHER -> flow

\* the message is an answer to the pending step: a text that is no command
\* and no menu label
IsStepInput(m) ==
    m.document = None /\ m.text # <<>> /\ Head(m.text) # "/" /\ Strip(m.text) \notin MENU_LABELS

\* what the session has collected is what the steps before the pending one
\* accepted
CollectedFor(session) ==
    /\ session.flow \in {FLOW_ADD_QTY, FLOW_ADD_PRICE} =>
           session.data.name # None /\ Strip(session.data.name[1]) # <<>>
    /\ session.flow = FLOW_ADD_PRICE =>
           session.data.quantity # None /\ session.data.quantity[1] > 0
    /\ session.flow \in {FLOW_SET_QTY_VALUE, FLOW_SET_PRICE_VALUE} =>
           session.data.offer_id # None

\* the handler called add_offer on the repository
Created(c) == \E i \in StoreEvents(c) : c.trace[i].op = "add_offer"

\* C26: the steps of a flow advance in the enumerated order, one step per
\* accepted input: add goes name, quantity, price, complete; set-quantity
\* and set-price go id, value, complete.  An answer to the pending step
\* leaves the step as it is or moves to the next one (a value step may fall
\* back to its id step when the offer is not found); any other message
\* leaves the step, ends the flow or, with no step left, starts a flow at
\* its first step; the add flow creates only at the price step, with a
\* non-empty name and a quantity accepted before
C26_StepsInOrder ==
    /\ \A u \in Users : CollectedFor(user_data[u])
    /\ \A u \in Users :
           _is_admin(u) =>
               \A m \in SampleMessages(u), env \in FaultEnvs :
                   LET c    == Dispatch(Ctx(u), m, env)
                       flow == user_data[u].flow
                       TargetMissing ==
                           OfferStore_get_offer(offers, DataInt(user_data[u].data.offer_id)) = None
                   IN  /\ CollectedFor([flow |-> c.flow, data |-> c.data])
                       /\ (Pending(u) /\ IsStepInput(m)) =>
                              /\ \/ c.flow \in {flow, NextStep(flow)}
                                 \/ c.flow = IdStepOf(flow) /\ TargetMissing
                              /\ Created(c) =>
                                     /\ flow = FLOW_ADD_PRICE
                                     /\ c.offers[Len(c.offers)].name = Strip(user_data[u].data.name[1])
                                     /\ c.offers[Len(c.offers)].quantity = user_data[u].data.quantity[1]
                       /\ ~(Pending(u) /\ IsStepInput(m)) =>
                              \/ c.flow \in {flow, NoFlow}
                              \/ c.flow \in EntrySteps /\ c.data = EmptyData
                                    /\ (~Pending(u) \/ c.flow = FLOW_UPLOAD_WAIT_FILE)

\* C26: an admin is at the quantity step of the add flow with the name
\* collected: the quantity 5 moves to the price step, and there the price
\* 2.50 creates the offer with that name and quantity and ends the flow
C26_Witness ==
    \E u \in Users :
        /\ _is_admin(u) /\ user_data[u].flow = FLOW_ADD_QTY
        /\ user_data[u].data.name = Some(NAME_WIDGET)
        /\ LET run == Feed([st |-> State, calls |-> <<>>], u, <<<<"5">>>>, EnvOk)
               c   == Dispatch(CtxOf(run.st, u), TextMessage(<<"2", ".", "5", "0">>), EnvOk)
           IN  /\ run.st.user_data[u].flow = FLOW_ADD_PRICE
               /\ run.st.offers = offers
               /\ Created(c) /\ c.flow = NoFlow
               /\ c.offers[Len(c.offers)].name = NAME_WIDGET
               /\ c.offers[Len(c.offers)].quantity = 5

(***************************************************************************)
(* C27: an unknown offer at an await-id step.                              *)
(***************************************************************************)
IdSteps == {FLOW_SET_QTY_ID, FLOW_SET_PRICE_ID, FLOW_SOLD_OUT_ID, FLOW_ANNOUNCE_ID}

\* ids that parse as integers
IntegerIdTexts == {<<"1">>, <<"2">>, <<"9">>, <<"0">>, <<"-", "1">>}

\* the id names no offer the step can work on: none is stored under it, or,
\* at the re-announce step, the stored one is inactive
NoTarget(flow, id) ==
    LET row == OfferStore_get_offer(offers, id)
    IN  row = None \/ (flow = FLOW_ANNOUNCE_ID /\ ~row[1].active)

\* C27: at the await-id step of the set-quantity, set-price, sold-out and
\* re-announce flows an id that parses as an integer but names no existing
\* offer (for re-announce also an inactive one) is reported to the user and
\* the step is retried: the session stays in the same step, the repository
\* is unchanged and nothing is sent or deleted
C27_UnknownIdRetried ==
    \A u \in Users :
        (_is_admin(u) /\ user_data[u].flow \in IdSteps) =>
            \A t \in IntegerIdTexts, env \in TransportEnvs :
                NoTarget(user_data[u].flow, PyInt(t).val) =>
                    LET c == Dispatch(Ctx(u), TextMessage(t), env)
                    IN  /\ c.flow = user_data[u].flow /\ c.data = user_data[u].data
                        /\ c.offers = offers /\ c.chat_log = chat_log
                        /\ c.settings = settings
                        /\ TransportEvents(c) = {}
                        /\ c.raised = ""
                        /\ c.replies =
                               <<IF user_data[u].flow = FLOW_ANNOUNCE_ID
                                 THEN R("Offer not found or inactive.")
                                 ELSE R("Offer not found. Send a valid offer ID.")>>

\* C27: an admin is at the id step of the re-announce flow and offer 1 is
\* retired: the id 1 and the id 9 are both answered and the step stays; and
\* an admin at the id step of the set-quantity flow sends 9
C27_Witness ==
    \E u \in Users :
        /\ _is_admin(u) /\ user_data[u].flow = FLOW_ANNOUNCE_ID
        /\ Len(offers) >= 1 /\ ~offers[1].active
        /\ \A t \in {<<"1">>, <<"9">>} :
               LET c == Dispatch(Ctx(u), TextMessage(t), EnvOk)
               IN  /\ c.flow = FLOW_ANNOUNCE_ID /\ c.offers = offers /\ c.chat_log = chat_log
                   /\ c.replies = <<R("Offer not found or inactive.")>>

(***************************************************************************)
(* C28: the file step.                                                     *)
(***************************************************************************)
\* the calls a handler made for a file: download, upload, announcement
FileEvents(c) ==
    {i \in 1..Len(c.trace) :
        c.trace[i].op \in {"download_to_drive", "upload_fn", "send_message"}}

\* texts that reach handle_text: labels and the answers of every step
PlainTexts == MENU_LABELS \cup AllStepTexts \cup StepTexts(FLOW_UPLOAD_WAIT_FILE)

\* the texts of the commands, which reach the CommandHandlers instead
SlashTexts == AdminCommands \cup StockCommands \cup ExemptCommands

WrongStepDocumentRejected(u) ==
    \A d \in Documents, env \in DocumentEnvs :
        LET c == Dispatch(Ctx(u), DocumentMessage(d), env)
        IN  /\ Untouched(Ctx(u), c)
            /\ FileEvents(c) = {} /\ StoreEvents(c) = {}
            /\ env.reply_fails = 0 =>
                   c.replies = <<R("You're in the middle of another step. Send /cancel to stop.")>>

TextKeepsFileStep(u, texts) ==
    \A t \in texts, env \in ReplyEnvs :
        LET c == Dispatch(Ctx(u), TextMessage(t), env)
        IN  /\ Untouched(Ctx(u), c)
            /\ FileEvents(c) = {}

RaceMaxOffers == 1

RaceMaxMessages == 2

RaceCommands ==
    {Command(CMD_ADD, AddPayload(NAME_WIDGET, <<"5">>, <<"2", ".", "5", "0">>)),
     Command(CMD_SETQTY, <<"1", " ", "5">>), Command(CMD_SETQTY, <<"1", " ", "0">>),
     Command(CMD_SOLDOUT, <<"1">>), Command(CMD_ANNOUNCE, <<"1">>)}

\* the commands that retire the offer
RetireCommands == {Command(CMD_SETQTY, <<"1", " ", "0">>), Command(CMD_SOLDOUT, <<"1">>)}

TransportOps == {"send_message", "delete_message", "reply_text"}

\* the first call of a handler to the transport, where its coroutine yields
FirstAwait(trace) ==
    IF \E i \in 1..Len(trace) : trace[i].op \in TransportOps
    THEN CHOOSE i \in 1..Len(trace) :
             trace[i].op \in TransportOps
             /\ \A j \in 1..(i - 1) : trace[j].op \notin TransportOps
    ELSE 0

\* the handler of a message, run from its start to its first await
UpToFirstAwait(st, u, text, env) ==
    LET Until(k) == Dispatch([CtxOf(st, u) EXCEPT !.stop = k], TextMessage(text), env)
    IN  Until(FirstAwait(Dispatch(CtxOf(st, u), TextMessage(text), env).trace))

\* the coroutine that waits in context c: a reply is the last statement of
\* these handlers, a send or a delete is followed by more
Suspended(c, text, others) ==
    LET Waiting(ev) ==
            [pc |-> IF ev.op = "reply_text" THEN "done" ELSE ev.op,
             cmd |-> text, id |-> c.trace[1].id, chat |-> ev.chat, mid |-> ev.mid,
             ok |-> ev.ok,
             over |-> {v \in DOMAIN others \ {c.user} : others[v].pc \notin {"idle", "done"}}]
    IN  Waiting(LastEv(c))

\* what a handler does once the call it awaited has returned: after a send
\* it binds the message that was sent and replies (_create_offer_and_announce,
\* _send_offer_announcement), after a delete it replies (_mark_sold_out)
Resumed(c, task) ==
    LET id == IntToStr(task.id)
        Attach(c1) ==
            StoreCall(c1, "attach_announcement", task.id,
                      OfferStore_attach_announcement(c1.offers, task.id, task.chat, task.mid))
    IN  CASE task.pc = "send_message" /\ CommandName(task.cmd) = CMD_ADD ->
               IF ~task.ok
               THEN reply_text(c, RA("Added offer #{}. Announcement failed: {}",
                                     <<id, SEND_ERROR>>), EnvOk)
               ELSE IF task.chat = ChatOf(c.user)
               THEN reply_text(Attach(c), RA("Added offer #{}.", <<id>>), EnvOk)
               ELSE reply_text(Attach(c), RA("Added offer #{} and announced it.", <<id>>),
                               EnvOk)
          [] task.pc = "send_message" /\ CommandName(task.cmd) # CMD_ADD ->
               IF ~task.ok
               THEN Return(reply_text(c, RA("{}", <<SEND_ERROR>>), EnvOk), FALSE)
               ELSE Return(reply_text(Attach(c), RA("Announced #{}.", <<id>>), EnvOk), TRUE)
          [] task.pc = "delete_message" ->
               IF task.ok
               THEN reply_text(c, RA("Marked #{} as sold out and removed the announcement.",
                                     <<id>>), EnvOk)
               ELSE reply_text(c, RA("Marked #{} as sold out.", <<id>>), EnvOk)
          [] OTHER -> c

InRaceBounds(c) == Len(c.offers) <= RaceMaxOffers /\ Len(c.chat_log) <= RaceMaxMessages

\* the tables and the session a coroutine leaves when it yields or ends
Yield(c, task) ==
    /\ InRaceBounds(c)
    /\ user_data' = SessionsAfter(user_data, c)
    /\ offers' = c.offers
    /\ settings' = c.settings
    /\ chat_log' = c.chat_log
    /\ tasks' = [tasks EXCEPT ![c.user] = task]
    /\ UNCHANGED <<ADMIN_USER_IDS, ANNOUNCE_CHAT_ID>>

\* an admin whose handler is not running sends a command: its handler runs
\* to its first await
RaceBegin ==
    \E u \in Users, text \in RaceCommands, env \in TransportEnvs :
        /\ tasks[u].pc \in {"idle", "done"}
        /\ LET Began(c) == Yield(c, Suspended(c, text, tasks))
           IN  Began(UpToFirstAwait(State, u, text, env))

\* the call a handler awaits returns: the handler runs to its end
RaceResume ==
    \E u \in Users :
        /\ tasks[u].pc \in {"send_message", "delete_message"}
        /\ Yield(Resumed(Ctx(u), tasks[u]), [tasks[u] EXCEPT !.pc = "done"])

InitRace == InitWith({1, 2})

NextRace == RaceBegin \/ RaceResume

SpecRace == InitRace /\ [][NextRace]_vars

\* a handler that is resumed at once does what the handler run as a whole does
SegmentsMakeTheHandler ==
    \A u \in Users, text \in RaceCommands, env \in TransportEnvs :
        LET whole == Dispatch(Ctx(u), TextMessage(text), env)
            first == UpToFirstAwait(State, u, text, env)
            task  == Suspended(first, text, tasks)
            rest  == Resumed(CtxOf(After(State, first), u), task)
        IN  /\ rest.offers = whole.offers /\ rest.chat_log = whole.chat_log
            /\ rest.settings = whole.settings
            /\ rest.flow = whole.flow /\ rest.data = whole.data
            /\ first.replies \o rest.replies = whole.replies
            /\ first.trace \o rest.trace = whole.trace

(***************************************************************************)
(* C29, C30: admins racing on one offer.                                   *)
(***************************************************************************)
\* C29: with the handlers of different admins interleaved at their transport
\* awaits, every offer is active exactly when its quantity is above zero in
\* every state a handler can observe: a handler writes the quantity and the
\* flag back to back, with no await between the two
C29_ActiveIffStockedAtAwaits ==
    \A i \in 1..Len(offers) : offers[i].active <=> offers[i].quantity > 0

\* C29: a reannounce of offer 1 waits for its send while a retire of offer 1
\* by the other admin, begun after it, waits for its delete
C29_Witness ==
    \E a \in Users, b \in Users :
        /\ tasks[a].pc = "send_message" /\ CommandName(tasks[a].cmd) = CMD_ANNOUNCE
        /\ tasks[b].pc = "delete_message" /\ tasks[b].cmd \in RetireCommands
        /\ a \in tasks[b].over
        /\ tasks[a].id = tasks[b].id
        /\ ~offers[tasks[a].id].active /\ offers[tasks[a].id].quantity = 0

\* the bound announcement of a retired offer is one a reannounce published
\* that was in flight when the retire began, and it is live with both ended
RetiredYetReannounced(a, b) ==
    /\ a # b
    /\ tasks[a].pc = "done" /\ CommandName(tasks[a].cmd) = CMD_ANNOUNCE
    /\ tasks[a].ok /\ tasks[a].mid > 0
    /\ tasks[b].pc = "done" /\ tasks[b].cmd \in RetireCommands
    /\ a \in tasks[b].over
    /\ tasks[a].id = tasks[b].id /\ tasks[a].id \in 1..Len(offers)
    /\ LET offer == offers[tasks[a].id]
       IN  /\ offer.quantity = 0 /\ ~offer.active
           /\ offer.announce_chat_id = Some(tasks[a].chat)
           /\ offer.announce_message_id = Some(tasks[a].mid)
           /\ IsLive(chat_log, tasks[a].chat, tasks[a].mid)

LiveAnnouncements(log, id) ==
    {m \in 1..Len(log) : log[m].offer_id = id /\ ~log[m].deleted}

C31_BoundAnnouncementRemoved ==
    \A u \in Users :
        _is_admin(u) =>
            \A r \in RetireInputs(u) :
                LET c == Dispatch(Ctx(u), TextMessage(r.text), EnvOk)
                    o == offers[r.id]
                IN  Deleted(c) =>
                        /\ Bound(o)
                        /\ c.chat_log[o.announce_message_id[1]].deleted
                        /\ LiveAnnouncements(c.chat_log, r.id) =
                               LiveAnnouncements(chat_log, r.id) \ {o.announce_message_id[1]}

\* the offers whose bound message a delete call has already removed
AlreadyDeleted(id) ==
    /\ Bound(offers[id])
    /\ offers[id].announce_message_id[1] \in 1..Len(chat_log)
    /\ chat_log[offers[id].announce_message_id[1]].chat_id = offers[id].announce_chat_id[1]
    /\ chat_log[offers[id].announce_message_id[1]].deleted

\* C32: delete_message is called at most once for an announcement handle:
\* once a retire has deleted the message an offer is bound to, no later
\* retire of that offer, directly or after a restock without reannounce,
\* calls delete_message for that message again
C32_DeleteCalledOncePerHandle ==
    \A u \in Users :
        _is_admin(u) =>
            \A r \in RetireInputs(u), env \in TransportEnvs :
                AlreadyDeleted(r.id) =>
                    LET c == Dispatch(Ctx(u), TextMessage(r.text), env)
                    IN  \A i \in DeleteAttempts(c) :
                            ~(/\ c.trace[i].chat = offers[r.id].announce_chat_id[1]
                              /\ c.trace[i].mid = offers[r.id].announce_message_id[1])

\* what does hold: the repeated call fails and leaves the channel as it was
C32_RepeatedDeleteFails ==
    \A u \in Users :
        _is_admin(u) =>
            \A r \in RetireInputs(u), env \in TransportEnvs :
                AlreadyDeleted(r.id) =>
                    LET c == Dispatch(Ctx(u), TextMessage(r.text), env)
                    IN  /\ Cardinality(DeleteAttempts(c)) = 1
                        /\ ~Deleted(c)
                        /\ c.chat_log = chat_log

(***************************************************************************)
(* C33: the session a flow step finds.                                     *)
(***************************************************************************)
FirstSteps ==
    {FLOW_ADD_NAME, FLOW_SET_QTY_ID, FLOW_SET_PRICE_ID, FLOW_SOLD_OUT_ID, FLOW_ANNOUNCE_ID,
     FLOW_UPLOAD_WAIT_FILE}

HasName(data) == data.name # None /\ data.name[1] # <<>> /\ Strip(data.name[1]) = data.name[1]

\* the field bag matches the step
BagMatchesStep(session) ==
    /\ session.flow \in {NoFlow} \cup FlowTags
    /\ session.flow = FLOW_ADD_QTY => HasName(session.data)
    /\ session.flow = FLOW_ADD_PRICE =>
           /\ HasName(session.data)
           /\ session.data.quantity # None /\ session.data.quantity[1] > 0
    /\ session.flow \in {FLOW_SET_QTY_VALUE, FLOW_SET_PRICE_VALUE} =>
           /\ session.data.offer_id # None
           /\ OfferStore_get_offer(offers, session.data.offer_id[1]) # None
    /\ session.flow \in FirstSteps => session.data = EmptyData

\* C33: in every reachable session the step tag is none or one of the ten
\* tags and the field bag matches the step: a non-empty name at the quantity
\* step of the add flow; a non-empty name and a quantity above zero at its
\* price step, so that create is never called with quantity 0 or an empty
\* name; the id of a stored offer at the value step of set-quantity and
\* set-price; nothing at a first step
C33_SessionMatchesStep ==
    /\ \A u \in Users : BagMatchesStep(user_data[u])
    /\ \A u \in Users :
           user_data[u].flow = FLOW_ADD_PRICE =>
               \A t \in PriceTexts, env \in TransportEnvs :
                   LET c == Dispatch(Ctx(u), TextMessage(t), env)
                   IN  \A i \in (Len(offers) + 1)..Len(c.offers) :
                           c.offers[i].quantity > 0 /\ c.offers[i].name # <<>>

\* C33: an admin is at the value step of the set-quantity flow with the id of
\* a stored offer, and from the price step of an add flow reached from this
\* state a create stores the name and the quantity collected
C33_Witness ==
    \E u \in Users :
        /\ user_data[u].flow = FLOW_SET_QTY_VALUE
        /\ user_data[u].data.offer_id = Some(1) /\ Len(offers) = 1
        /\ LET Step(st, t) == After(st, Dispatch(CtxOf(st, u), TextMessage(t), EnvOk))
               AtPrice == Step(Step(Step(State, MENU_CANCEL), MENU_ADD), NAME_WIDGET)
               Priced == Step(AtPrice, <<"5">>)
           IN  /\ AtPrice.user_data[u].flow = FLOW_ADD_QTY
               /\ Priced.user_data[u].flow = FLOW_ADD_PRICE
               /\ Priced.user_data[u].data.quantity = Some(5)
               /\ Len(Step(Priced, <<"2", ".", "5", "0">>).offers) = 2

(***************************************************************************)
(* C34: one pass through the add flow.                                     *)
(***************************************************************************)
\* C34: one pass through the add flow creates at most one offer: whenever
\* the price step has inserted an offer, the session is no longer at the
\* price step when the handler ends, also when a call after the insert
\* raised, so that sending the price again cannot create a second offer from
\* the name and quantity collected
C34_OneOfferPerAddFlow ==
    \A u \in Users :
        (_is_admin(u) /\ user_data[u].flow = FLOW_ADD_PRICE) =>
            \A t \in PriceTexts, env \in OfferEnvs :
                LET c == Dispatch(Ctx(u), TextMessage(t), env)
                IN  Len(c.offers) > Len(offers) => c.flow # FLOW_ADD_PRICE

\* what does hold: the price step that inserted an offer and ran to its end
\* leaves no flow, and the one that ended in an exception leaves the session
\* as it was, from where the same price creates the next offer
C34_FlowEndsUnlessRaised ==
    \A u \in Users :
        (_is_admin(u) /\ user_data[u].flow = FLOW_ADD_PRICE) =>
            \A t \in PriceTexts, env \in OfferEnvs :
                LET c == Dispatch(Ctx(u), TextMessage(t), env)
                    again == Dispatch(CtxOf(After(State, c), u), TextMessage(t), EnvOk)
                IN  Len(c.offers) > Len(offers) =>
                        IF Alive(c) THEN c.flow = NoFlow /\ c.data = EmptyData
                        ELSE /\ c.flow = FLOW_ADD_PRICE /\ c.data = user_data[u].data
                             /\ Len(again.offers) = Len(offers) + 2
                             /\ again.offers[Len(offers) + 2].name = c.offers[Len(offers) + 1].name

====
